---- MODULE Spec2Model ----
(***************************************************************************)
(* Card service of the flashcards backend                                  *)
(* (app/api/routers/flashcards/service.py) over the persisted tables       *)
(* Note, Card and RevLog (app/models/flashcards).                          *)
(*                                                                         *)
(* Text values (front, back, tags) are sequences of one-character strings, *)
(* so that joining, splitting and stripping are computed.  Columns the     *)
(* service only writes and never reads back into a decision (usn, flags,   *)
(* data, left, odue, odid, guid, and the modification time mod of Note and *)
(* Card) are left out of the rows; a review's timestamp is kept in the     *)
(* RevLog id.                                                              *)
(*                                                                         *)
(* Further parts: the deck operations of the same service, the routes and  *)
(* their API key (app/main.py, app/core/security.py), and the import side: *)
(* ImportService (app/api/routers/import_cards) over the flashcard_importer*)
(* library (ImportResult, TxtParser, ParserFactory, deck detection).  Each *)
(* part has its own specification; the variables of the other parts stay   *)
(* as they are initially.                                                  *)
(***************************************************************************)
EXTENDS Integers, Sequences, FiniteSets, TLC

\* ------------------------------------------------------------ bounds
MaxNotes == 2      \* notes create_card may insert in one behaviour
MaxReviews == 3    \* RevLog rows review_card may insert in one behaviour
MaxTick == 1       \* seconds the wall clock may advance

\* ------------------------------------------------------------ enumerations
CardTypeEnum == "NEW" :> 0 @@ [LEARNING |-> 1, REVIEW |-> 2, RELEARNING |-> 3]

QueueTypeEnum ==
    "NEW" :> 0 @@
    [USER_BURIED |-> -3, SCHED_BURIED |-> -2, SUSPENDED |-> -1,
     LEARNING |-> 1, REVIEW |-> 2, IN_LEARNING |-> 3, PREVIEW |-> 4]

\* ------------------------------------------------------------ text
US == "<US>"       \* the unit separator character 0x1F
SP == " "
TAB == "\t"
NL == "\n"
CR == "\r"
Whitespace == { SP, TAB, NL, CR }

None == <<"<None>">>   \* Python's None, for the optional text inputs

RECURSIVE lstrip(_)
lstrip(s) == IF s # <<>> /\ Head(s) \in Whitespace THEN lstrip(Tail(s)) ELSE s

RECURSIVE rstrip(_)
rstrip(s) ==
    IF s # <<>> /\ s[Len(s)] \in Whitespace
    THEN rstrip(SubSeq(s, 1, Len(s) - 1)) ELSE s

\* str.strip()
strip(s) == rstrip(lstrip(s))

\* str.split(sep) for a one-character separator: the list of fields
RECURSIVE split(_, _)
split(s, sep) ==
    IF \A i \in 1..Len(s) : s[i] # sep
    THEN <<s>>
    ELSE LET k == CHOOSE i \in 1..Len(s) :
                      s[i] = sep /\ \A j \in 1..(i - 1) : s[j] # sep
         IN  <<SubSeq(s, 1, k - 1)>> \o split(SubSeq(s, k + 1, Len(s)), sep)

\* f'{front}\x1f{back}'
JoinFields(front, back) == front \o <<US>> \o back

\* f' {tags.strip()} ' if tags else ''
PadTags(tags) == IF tags # <<>> THEN <<SP>> \o strip(tags) \o <<SP>> ELSE <<>>

\* ------------------------------------------------------------ tables
EmptyTable == [i \in {} |-> i]

Put(t, k, row) == [i \in DOMAIN t \cup {k} |-> IF i = k THEN row ELSE t[i]]

Remove(t, k) == [i \in DOMAIN t \ {k} |-> t[i]]

Max(S) == CHOOSE x \in S : \A y \in S : y <= x

\* ------------------------------------------------------------ reference data
\* Notetype and Template rows: the service only reads them.
Notetypes ==
    { [id |-> 1, name |-> "Basic"],
      [id |-> 2, name |-> "Basic (and reversed card)"],
      [id |-> 3, name |-> "Bare"] }

Templates ==
    { [ntid |-> 1, ord |-> 0], [ntid |-> 2, ord |-> 0], [ntid |-> 2, ord |-> 1] }

SeedDecks == { [id |-> 1, name |-> "Test Deck", config_id |-> 1] }

\* the one Collection row and the one DeckConfig row: create_deck reads them
Collections == { [id |-> 1] }

DeckConfigs == { [id |-> 1, name |-> "Default"] }

\* ------------------------------------------------------------ inputs
Fronts == { <<"Q">>, <<"R">> }
Backs == { <<"A">> }
TagInputs == { <<>> }
TagUpdates == { None }
FrontUpdates == Fronts \cup { None }
BackUpdates == { None }
TypeNames == { "Basic", "Basic (and reversed card)", "Bare", "Cloze" }
DeckNames == { "Test Deck", "Nowhere" }
Eases == 1..4
CrudEases == { 1, 3 }    \* the eases tried beside create, update and delete
ReviewTimesMs == { 5000 }
Offsets == { 0 }         \* user_timezone_offset_minutes
CardIds == 1..(2 * MaxNotes)

VARIABLES
    decks,        \* Deck rows
    notes,        \* Note rows by id
    cards,        \* Card rows by id
    revlog,       \* RevLog rows (id is the primary key)
    nextNoteId,   \* the Note id sequence
    nextCardId,   \* the Card id sequence
    now,          \* the wall clock, epoch seconds (UTC)
    pending,      \* the create_card request between its two commits: {} or {request}
    response,     \* what the last finished call returned or raised
    tmpdirs,      \* the temporary directories that exist on disk
    job,          \* the import operation in progress: {} or {its frame}
    reply,        \* what the last finished import operation or route answered
    file,         \* the lines of the text file handed to TxtParser
    result,       \* an ImportResult
    parsers,      \* ParserFactory._parsers: extension -> parser class
    calls,        \* the register and clear calls made on ParserFactory, in order
    created,      \* what the last ParserFactory.create call did
    html,         \* a text and what strip_html made of it, once and twice
    csv,          \* a CsvParser instance
    reqs          \* the requests in flight, each on its own session

\* the flashcards service, and the import library and service beside it
svc == <<decks, notes, cards, revlog, nextNoteId, nextCardId, now, pending, response>>

lib == <<tmpdirs, job, reply, file, result, parsers, calls, created, html, csv, reqs>>

vars == <<svc, lib>>

db == <<decks, notes, cards, revlog, nextNoteId, nextCardId>>

\* ------------------------------------------------------------ helpers
\* int(get_user_localtime(offset).timestamp()): UTC now minus the offset
get_user_localtime(user_timezone_offset_minutes) ==
    now - user_timezone_offset_minutes * 60

\* int.from_bytes(sha1(field.encode('utf-8')).digest()[:8], 'big'), written as
\* the hexadecimal numeral of that integer
anki_field_checksum(field) ==
    CASE field = <<"Q">> -> "c3156e00d3c2588c"
      [] field = <<"R">> -> "06576556d1ad802f"
      [] field = <<"S">> -> "02aa629c8b16cd17"
      [] field = <<"Q", US, "R">> -> "c3cf446959b14238"
      [] OTHER -> <<"sha1", field>>

\* what a call raised, or that it returned its output
Raised(op, error) == [op |-> op, status |-> "error", error |-> error]

Returned(op) == [op |-> op, status |-> "ok", error |-> ""]

\* ------------------------------------------------------------ create_card
\* select(Note).where(Note.csum == csum).where(Note.mid == notetype.id)
ExistingNote_AnyNotetype(csum, mid) == \E n \in DOMAIN notes : notes[n].csum = csum

ExistingNote(csum, mid) ==
    \E n \in DOMAIN notes : notes[n].csum = csum /\ notes[n].mid = mid

NewNote(mid, mod, front, back, tags) ==
    [mid |-> mid, tags |-> PadTags(tags),
     flds |-> JoinFields(front, back), sfld |-> front,
     csum |-> anki_field_checksum(front)]

\* max(existing_dues.all() or [0]) over the NEW/NEW cards of the deck
MaxDue(cs, did) ==
    LET dues == { cs[c].due : c \in { c \in DOMAIN cs :
                      /\ cs[c].did = did
                      /\ cs[c].type_id = CardTypeEnum["NEW"]
                      /\ cs[c].queue_id = QueueTypeEnum["NEW"] } }
    IN  IF dues = {} THEN 0 ELSE Max(dues)

NewCard(nid, did, ord, mod, due) ==
    [nid |-> nid, did |-> did, ord |-> ord,
     type_id |-> CardTypeEnum["NEW"], queue_id |-> QueueTypeEnum["NEW"],
     due |-> due, ivl |-> 0, factor |-> 2500, reps |-> 0, lapses |-> 0]

\* the ordinals of a notetype's templates, in primary-key order
RECURSIVE SortedOrds(_)
SortedOrds(S) ==
    IF S = {} THEN <<>>
    ELSE LET m == CHOOSE x \in S : \A y \in S : x <= y
         IN  <<m>> \o SortedOrds(S \ {m})

TemplateOrds(ntid) == SortedOrds({ t.ord : t \in { t \in Templates : t.ntid = ntid } })

\* the loop over the templates, were the maximum taken once before the loop
AddCards_OneMaximum(cs, ords, firstId, nid, did, mod) ==
    [i \in DOMAIN cs \cup (firstId..(firstId + Len(ords) - 1)) |->
        IF i \in DOMAIN cs THEN cs[i]
        ELSE NewCard(nid, did, ords[i - firstId + 1], mod, MaxDue(cs, did) + 1)]

\* the loop over the templates: each card is added (and flushed by the next
\* query) before the next maximum is taken
RECURSIVE AddCards(_, _, _, _, _, _)
AddCards(cs, ords, firstId, nid, did, mod) ==
    IF ords = <<>> THEN cs
    ELSE AddCards(Put(cs, firstId, NewCard(nid, did, Head(ords), mod, MaxDue(cs, did) + 1)),
                  Tail(ords), firstId + 1, nid, did, mod)

\* lines 66-117: the lookups, the duplicate check and the note's commit
create_card(type_name, deck_name, front, back, tags, offset) ==
    /\ pending = {}
    /\ LET deck == { d \in decks : d.name = deck_name }
           mod == get_user_localtime(offset)
           notetype == { t \in Notetypes : t.name = type_name }
           mid == (CHOOSE t \in notetype : TRUE).id
       IN  IF deck = {}
           THEN /\ response' = Raised("create_card", "Deck not found")
                /\ UNCHANGED <<db, pending>>
           ELSE IF notetype = {}
           THEN /\ response' = Raised("create_card", "No notetype found")
                /\ UNCHANGED <<db, pending>>
           ELSE IF ExistingNote(anki_field_checksum(front), mid)
           THEN /\ response' = Raised("create_card", "Note with same sort field already exists in this notetype.")
                /\ UNCHANGED <<db, pending>>
           ELSE /\ nextNoteId <= MaxNotes
                /\ notes' = Put(notes, nextNoteId, NewNote(mid, mod, front, back, tags))
                /\ nextNoteId' = nextNoteId + 1
                /\ \E d \in deck :
                      pending' = { [nid |-> nextNoteId, did |-> d.id, mid |-> mid, mod |-> mod] }
                /\ UNCHANGED <<decks, cards, revlog, nextCardId, response>>
    /\ UNCHANGED <<now, lib>>

\* lines 119-166: the cards of the note, their commit and the returned output;
\* front, back = note.flds.split('\x1f') at 157 unpacks exactly two fields
create_card_cards ==
    /\ pending # {}
    /\ LET req == CHOOSE r \in pending : TRUE
           ords == TemplateOrds(req.mid)
       IN  /\ cards' = AddCards(cards, ords, nextCardId, req.nid, req.did, req.mod)
           /\ nextCardId' = nextCardId + Len(ords)
           /\ response' = IF ords = <<>>
                          THEN Raised("create_card", "IndexError")
                          ELSE IF Len(split(notes[req.nid].flds, US)) # 2
                          THEN Raised("create_card", "ValueError")
                          ELSE Returned("create_card")
    /\ pending' = {}
    /\ UNCHANGED <<decks, notes, revlog, nextNoteId, now, lib>>

\* ------------------------------------------------------------ review_card
\* lines 225-235: the RevLog row, built before the card is changed
ReviewLog(card_id, card, ease, review_time_ms, mod) ==
    [id |-> mod * 1000, cid |-> card_id, ease |-> ease, ivl |-> card.ivl,
     lastIvl |-> card.ivl, factor |-> card.factor, time |-> review_time_ms,
     type |-> card.type_id]

\* lines 238-242: a NEW card enters learning, due in ten minutes
ScheduleNew_Graduates(card, mod) ==
    [card EXCEPT !.type_id = CardTypeEnum.REVIEW, !.queue_id = QueueTypeEnum.REVIEW,
                 !.ivl = 1, !.due = mod + 86400]

ScheduleNew(card, mod) ==
    [card EXCEPT !.type_id = CardTypeEnum.LEARNING,
                 !.queue_id = QueueTypeEnum.LEARNING,
                 !.ivl = 0, !.due = mod + 600]

\* lines 243-247: a LEARNING card graduates, due in one day
ScheduleLearning_Repeats(card, mod) == [card EXCEPT !.ivl = 0, !.due = mod + 600]

ScheduleLearning(card, mod) ==
    [card EXCEPT !.type_id = CardTypeEnum.REVIEW, !.queue_id = QueueTypeEnum.REVIEW,
                 !.ivl = 1, !.due = mod + 86400]

\* lines 249-262: the REVIEW branch; int() of the float products equals the
\* integer quotients below for every interval and factor the model reaches
ReviewAgain_NoFloor(card, mod) ==
    [card EXCEPT !.lapses = card.lapses + 1, !.ivl = 1, !.due = mod + 86400,
                 !.factor = card.factor - 200]

\* an Again review, were the card sent to relearning as Anki does
ReviewAgain_Relearns(card, mod) ==
    [card EXCEPT !.lapses = card.lapses + 1, !.ivl = 1, !.due = mod + 600,
                 !.factor = Max({1300, card.factor - 200}),
                 !.type_id = CardTypeEnum.RELEARNING,
                 !.queue_id = QueueTypeEnum.LEARNING]

ReviewAgain(card, mod) ==
    [card EXCEPT !.lapses = card.lapses + 1, !.ivl = 1, !.due = mod + 86400,
                 !.factor = Max({1300, card.factor - 200})]

ReviewHard_Lapses(card, mod) ==
    LET ivl == Max({1, (card.ivl * 12) \div 10})
    IN  [card EXCEPT !.lapses = card.lapses + 1, !.ivl = ivl,
                     !.factor = Max({1300, card.factor - 150}),
                     !.due = mod + ivl * 86400]

ReviewHard(card, mod) ==
    LET ivl == Max({1, (card.ivl * 12) \div 10})
    IN  [card EXCEPT !.ivl = ivl, !.factor = Max({1300, card.factor - 150}),
                     !.due = mod + ivl * 86400]

ReviewGood(card, mod) ==
    LET ivl == Max({1, (card.ivl * card.factor) \div 1000})
    IN  [card EXCEPT !.ivl = ivl, !.due = mod + ivl * 86400]

ReviewEasy_RoundsFirst(card, mod) ==
    LET ivl == Max({1, (((card.ivl * card.factor) \div 1000) * 13) \div 10})
    IN  [card EXCEPT !.ivl = ivl, !.due = mod + ivl * 86400]

ReviewEasy(card, mod) ==
    LET ivl == Max({1, (card.ivl * card.factor * 13) \div 10000})
    IN  [card EXCEPT !.ivl = ivl, !.due = mod + ivl * 86400]

\* lines 263-267: a RELEARNING card returns to review; ease is not read
ScheduleRelearning(card, mod) ==
    [card EXCEPT !.type_id = CardTypeEnum.REVIEW, !.queue_id = QueueTypeEnum.REVIEW,
                 !.ivl = 1, !.due = mod + 86400]

\* lines 238-267: the transition keyed on the card's current type
Scheduled(card, ease, mod) ==
    IF card.type_id = CardTypeEnum["NEW"] THEN ScheduleNew(card, mod)
    ELSE IF card.type_id = CardTypeEnum.LEARNING THEN ScheduleLearning(card, mod)
    ELSE IF card.type_id = CardTypeEnum.REVIEW
    THEN IF ease = 1 THEN ReviewAgain(card, mod)
         ELSE IF ease = 2 THEN ReviewHard(card, mod)
         ELSE IF ease = 3 THEN ReviewGood(card, mod)
         ELSE IF ease = 4 THEN ReviewEasy(card, mod)
         ELSE [card EXCEPT !.due = mod + card.ivl * 86400]
    ELSE IF card.type_id = CardTypeEnum.RELEARNING THEN ScheduleRelearning(card, mod)
    ELSE card

\* the card after the review, were reps left alone
Reviewed_Uncounted(card, ease, mod) == Scheduled(card, ease, mod)

\* lines 238-270: the card after the review
Reviewed(card, ease, mod) ==
    LET c == Scheduled(card, ease, mod)
    IN  [c EXCEPT !.reps = c.reps + 1]

\* the INSERT of a RevLog row whose primary key is already there fails, and the
\* commit's flush with it
RevLogInsertFails(entry) == \E r \in revlog : r.id = entry.id

review_card(card_id, ease, review_time_ms, offset) ==
    /\ IF card_id \notin DOMAIN cards
       THEN /\ response' = Raised("review_card", "Card not found")
            /\ UNCHANGED db
       ELSE LET card == cards[card_id]
                mod == get_user_localtime(offset)
                revlog_entry == ReviewLog(card_id, card, ease, review_time_ms, mod)
            IN  IF RevLogInsertFails(revlog_entry)
                THEN /\ response' = Raised("review_card", "IntegrityError")
                     /\ UNCHANGED db
                ELSE /\ Cardinality(revlog) < MaxReviews
                     /\ revlog' = revlog \cup {revlog_entry}
                     /\ cards' = [cards EXCEPT ![card_id] = Reviewed(card, ease, mod)]
                     /\ response' = Returned("review_card")
                     /\ UNCHANGED <<decks, notes, nextNoteId, nextCardId>>
    /\ UNCHANGED <<now, pending, lib>>

\* ------------------------------------------------------------ update_card
\* lines 366-379: the note after the update
UpdatedNote(note, front, back, tags, mod) ==
    LET fields == split(note.flds, US)
        current_front == IF Len(fields) > 0 THEN fields[1] ELSE <<>>
        current_back == IF Len(fields) > 1 THEN fields[2] ELSE <<>>
        new_front == IF front # None THEN front ELSE current_front
        new_back == IF back # None THEN back ELSE current_back
        new_tags == IF tags # None THEN tags ELSE strip(note.tags)
    IN  [note EXCEPT !.flds = JoinFields(new_front, new_back),
                     !.sfld = new_front,
                     !.csum = anki_field_checksum(new_front),
                     !.tags = PadTags(new_tags)]

update_card(card_id, front, back, tags, offset) ==
    /\ IF front = None /\ back = None /\ tags = None
       THEN /\ response' = Raised("update_card", "At least one field must be provided")
            /\ UNCHANGED db
       ELSE IF card_id \notin DOMAIN cards \/ cards[card_id].nid \notin DOMAIN notes
                 \/ \A d \in decks : d.id # cards[card_id].did
       THEN /\ response' = Raised("update_card", "Card not found")
            /\ UNCHANGED db
       ELSE LET card == cards[card_id]
                mod == get_user_localtime(offset)
            IN  /\ notes' = [notes EXCEPT ![card.nid] =
                                 UpdatedNote(notes[card.nid], front, back, tags, mod)]
                /\ response' = Returned("update_card")
                /\ UNCHANGED <<decks, cards, revlog, nextNoteId, nextCardId>>
    /\ UNCHANGED <<now, pending, lib>>

\* ------------------------------------------------------------ delete_card
\* Card.revlogs has no delete cascade and RevLog.cid is NOT NULL: flushing the
\* DELETE of a card that has RevLog rows first sets their cid to NULL, which
\* the database refuses
CardDeleteFails_Never(card_id) == FALSE

CardDeleteFails(card_id) == \E r \in revlog : r.cid = card_id

\* lines 423-433: the note goes when no card references it any more
NotesAfterDelete_Always(ns, remaining, note_id) ==
    IF note_id \in DOMAIN ns THEN Remove(ns, note_id) ELSE ns

NotesAfterDelete(ns, remaining, note_id) ==
    IF \A c \in DOMAIN remaining : remaining[c].nid # note_id
    THEN IF note_id \in DOMAIN ns THEN Remove(ns, note_id) ELSE ns
    ELSE ns

delete_card(card_id, offset) ==
    /\ IF card_id \notin DOMAIN cards
       THEN /\ response' = Raised("delete_card", "Card not found")
            /\ UNCHANGED db
       ELSE IF CardDeleteFails(card_id)
       THEN /\ response' = Raised("delete_card", "IntegrityError")
            /\ UNCHANGED db
       ELSE LET note_id == cards[card_id].nid
                deleted_at == get_user_localtime(offset)
                remaining == Remove(cards, card_id)
            IN  /\ cards' = remaining
                /\ notes' = NotesAfterDelete(notes, remaining, note_id)
                /\ response' = Returned("delete_card")
                /\ UNCHANGED <<decks, revlog, nextNoteId, nextCardId>>
    /\ UNCHANGED <<now, pending, lib>>

\* ------------------------------------------------------------ decks
MaxDecks == 2

NoName == "<None>"       \* new_name=None
NoId == -1               \* config_id=None
DeckIds == 1..(MaxDecks + 1)
NewDeckNames == { "Test Deck", "Spanish" }
NameUpdates == { NoName, "Test Deck" }
ConfigUpdates == { NoId, 1 }

\* select(Deck).where(Deck.name == data.name)
ExistingDeck_Never(name) == FALSE

ExistingDeck(name) == \E d \in decks : d.name = name

\* select(Deck).where(Deck.id == deck_id)
DeckById(deck_id) == { d \in decks : d.id = deck_id }

\* Deck.id is the integer primary key: one more than the largest id
NextDeckId == IF decks = {} THEN 1 ELSE Max({ d.id : d \in decks }) + 1

create_deck(name) ==
    /\ IF ExistingDeck(name)
       THEN /\ response' = Raised("create_deck", "Deck already exists.")
            /\ UNCHANGED db
       ELSE IF Collections = {}
       THEN /\ response' = Raised("create_deck", "No collection found.")
            /\ UNCHANGED db
       ELSE IF DeckConfigs = {}
       THEN /\ response' = Raised("create_deck", "No deck config found.")
            /\ UNCHANGED db
       ELSE /\ Cardinality(decks) < MaxDecks
            /\ \E config \in DeckConfigs :
                  decks' = decks \cup { [id |-> NextDeckId, name |-> name,
                                         config_id |-> config.id] }
            /\ response' = Returned("create_deck")
            /\ UNCHANGED <<notes, cards, revlog, nextNoteId, nextCardId>>
    /\ UNCHANGED <<now, pending, lib>>

get_deck(deck_id) ==
    /\ response' = IF DeckById(deck_id) = {}
                   THEN Raised("get_deck", "Deck not found")
                   ELSE Returned("get_deck")
    /\ UNCHANGED <<db, now, pending, lib>>

\* lines 622-630: the name is taken as given, no other deck is looked at
RenamedDeck(deck, new_name, config_id) ==
    [deck EXCEPT
        !.name = IF new_name # NoName /\ new_name # "" /\ new_name # deck.name
                 THEN new_name ELSE deck.name,
        !.config_id = IF config_id # NoId /\ config_id # deck.config_id
                      THEN config_id ELSE deck.config_id]

update_deck(deck_id, new_name, config_id, offset) ==
    /\ IF DeckById(deck_id) = {}
       THEN /\ response' = Raised("update_deck", "Deck not found")
            /\ UNCHANGED db
       ELSE \E deck \in DeckById(deck_id) :
               /\ decks' = (decks \ {deck}) \cup { RenamedDeck(deck, new_name, config_id) }
               /\ response' = Returned("update_deck")
               /\ UNCHANGED <<notes, cards, revlog, nextNoteId, nextCardId>>
    /\ UNCHANGED <<now, pending, lib>>

\* line 562 reads data.id; DeckDeleteInput has deck_id and
\* user_timezone_offset_minutes only, so building the query raises
\* AttributeError and the rest of the handler never runs
delete_deck(deck_id, offset) ==
    /\ response' = Raised("delete_deck", "AttributeError")
    /\ UNCHANGED <<db, now, pending, lib>>

\* select(Card, Note, Deck).join(Note).join(Deck).where(Card.id == card_id)
get_card(card_id) ==
    /\ response' = IF /\ card_id \in DOMAIN cards
                      /\ cards[card_id].nid \in DOMAIN notes
                      /\ DeckById(cards[card_id].did) # {}
                   THEN Returned("get_card")
                   ELSE Raised("get_card", "Card not found")
    /\ UNCHANGED <<db, now, pending, lib>>

\* no text handed to strip_html yet
NoHtml == [by |-> "", content |-> <<>>, once |-> <<>>, twice |-> <<>>, applied |-> 0]

\* no CsvParser constructed yet
NoCsv == [has_header |-> FALSE, column_mapping |-> EmptyTable, parses |-> 0]

\* the import library and service at rest
LibInit ==
    /\ tmpdirs = {}
    /\ job = {}
    /\ reply = [op |-> "", error |-> "", dir |-> 0, body |-> <<>>]
    /\ file = <<>>
    /\ result = [cards |-> <<>>, skipped_count |-> 0, errors |-> <<>>, deck_detected |-> FALSE]
    /\ parsers = EmptyTable
    /\ calls = <<>>
    /\ created = [called |-> "", parser |-> "", error |-> ""]
    /\ html = NoHtml
    /\ csv = NoCsv
    /\ reqs = EmptyTable

Tick ==
    /\ now < MaxTick
    /\ now' = now + 1
    /\ UNCHANGED <<db, pending, response, lib>>

Init ==
    /\ decks = SeedDecks
    /\ notes = EmptyTable
    /\ cards = EmptyTable
    /\ revlog = {}
    /\ nextNoteId = 1
    /\ nextCardId = 1
    /\ now = 0
    /\ pending = {}
    /\ response = Raised("", "")
    /\ LibInit

Next ==
    \/ \E t \in TypeNames, d \in DeckNames, f \in Fronts, b \in Backs, g \in TagInputs,
          o \in Offsets : create_card(t, d, f, b, g, o)
    \/ create_card_cards
    \/ \E c \in CardIds, e \in CrudEases, ms \in ReviewTimesMs, o \in Offsets :
          review_card(c, e, ms, o)
    \/ \E c \in CardIds, f \in FrontUpdates, b \in BackUpdates, g \in TagUpdates,
          o \in Offsets : update_card(c, f, b, g, o)
    \/ \E c \in CardIds, o \in Offsets : delete_card(c, o)
    \/ Tick

Spec == Init /\ [][Next]_vars

\* ------------------------------------------------------------ scheduling
\* The review engine on stored cards of any scheduling state: card 1 is a card
\* as the database may hold it (any type, interval and factor), card 2 is a
\* card as create_card leaves it.
SchedTypes == { CardTypeEnum["NEW"], CardTypeEnum.LEARNING, CardTypeEnum.REVIEW,
                CardTypeEnum.RELEARNING }
SchedIvls == { 0, 1, 10 }
SchedFactors == { 1300, 1400, 2500 }

StoredCard(type_id, ivl, factor) ==
    [NewCard(1, 1, 0, 0, 1) EXCEPT
        !.type_id = type_id,
        !.queue_id = IF type_id = CardTypeEnum.RELEARNING
                     THEN QueueTypeEnum.LEARNING ELSE type_id,
        !.ivl = ivl, !.factor = factor]

InitSched ==
    /\ decks = SeedDecks
    /\ notes = Put(Put(EmptyTable, 1, NewNote(1, 0, <<"Q">>, <<"A">>, <<>>)),
                   2, NewNote(1, 0, <<"R">>, <<"A">>, <<>>))
    /\ \E t \in SchedTypes, i \in SchedIvls, f \in SchedFactors :
          cards = Put(Put(EmptyTable, 1, StoredCard(t, i, f)),
                      2, NewCard(2, 1, 0, 0, 2))
    /\ revlog = {}
    /\ nextNoteId = 3
    /\ nextCardId = 3
    /\ now = 0
    /\ pending = {}
    /\ response = Raised("", "")
    /\ LibInit

NextSched ==
    \/ \E c \in 1..3, e \in Eases, ms \in ReviewTimesMs, o \in Offsets :
          review_card(c, e, ms, o)
    \/ Tick

SpecSched == InitSched /\ [][NextSched]_vars

\* ------------------------------------------------------------ properties
\* the RevLog rows a step inserts: one per review that went through
NewRows == revlog' \ revlog

\* the review timestamp of a RevLog row
ReviewedAt(r) == r.id \div 1000

\* C1: a review of a NEW card, with any ease, leaves it LEARNING in queue
\* LEARNING with interval 0 and due 600 seconds after the review timestamp.
C1_NewToLearning ==
    [][\A r \in NewRows :
          cards[r.cid].type_id = CardTypeEnum["NEW"] =>
             /\ cards'[r.cid].type_id = CardTypeEnum.LEARNING
             /\ cards'[r.cid].queue_id = QueueTypeEnum.LEARNING
             /\ cards'[r.cid].ivl = 0
             /\ cards'[r.cid].due = ReviewedAt(r) + 600]_vars

C1_Witness ==
    \E r \in revlog :
        /\ r.type = CardTypeEnum["NEW"] /\ r.ease = 1 /\ r.cid = 1
        /\ cards[1].type_id = CardTypeEnum.LEARNING /\ cards[1].reps = 1

\* C3: a Good review of a REVIEW card sets the interval to
\* max(1, floor(ivl * factor / 1000)), an Easy review to
\* max(1, floor(ivl * factor / 1000 * 1.3)), both from the pre-review interval
\* and factor; due is the review timestamp plus the new interval in days, and
\* factor, lapses, type and queue stay.  From ivl 10 and factor 2500 the new
\* intervals are 25 and 32.
C3_GoodEasyInterval ==
    [][\A r \in NewRows :
          LET old == cards[r.cid]
              new == cards'[r.cid]
              exact == IF r.ease = 3 THEN (old.ivl * old.factor) \div 1000
                       ELSE (old.ivl * old.factor * 13) \div 10000
          IN  (old.type_id = CardTypeEnum.REVIEW /\ r.ease \in {3, 4}) =>
                 /\ new.ivl = IF exact < 1 THEN 1 ELSE exact
                 /\ new.due = ReviewedAt(r) + new.ivl * 86400
                 /\ new.factor = old.factor /\ new.lapses = old.lapses
                 /\ new.type_id = old.type_id /\ new.queue_id = old.queue_id
                 /\ (old.ivl = 10 /\ old.factor = 2500 /\ r.ease = 3 => new.ivl = 25)
                 /\ (old.ivl = 10 /\ old.factor = 2500 /\ r.ease = 4 => new.ivl = 32)]_vars

C3_Witness ==
    \E r \in revlog :
        /\ r.type = CardTypeEnum.REVIEW /\ r.ease = 4 /\ r.cid = 1
        /\ r.ivl = 10 /\ r.factor = 2500
        /\ cards[1].ivl = 32 /\ cards[1].reps = 1

\* C4: the factor of a card whose factor is at least 1300 never falls below
\* 1300, whatever reviews it gets.
C4_FactorFloor == \A c \in DOMAIN cards : cards[c].factor >= 1300

C4_Witness ==
    \E r \in revlog :
        /\ r.type = CardTypeEnum.REVIEW /\ r.ease \in {1, 2} /\ r.cid = 1
        /\ r.factor = 1400
        /\ cards[1].factor = 1300 /\ cards[1].reps = 1

\* C5: an Again review of a REVIEW card adds one lapse, resets the interval to
\* 1, sets due one day after the review, lowers factor to
\* max(1300, factor - 200) and keeps type and queue REVIEW; a Hard review
\* leaves lapses, sets the interval to max(1, floor(ivl * 1.2)) and lowers
\* factor to max(1300, factor - 150).
C5_AgainHard ==
    [][\A r \in NewRows :
          LET old == cards[r.cid]
              new == cards'[r.cid]
          IN  /\ (old.type_id = CardTypeEnum.REVIEW /\ r.ease = 1) =>
                    /\ new.lapses = old.lapses + 1
                    /\ new.ivl = 1
                    /\ new.due = ReviewedAt(r) + 86400
                    /\ new.factor = (IF old.factor - 200 < 1300 THEN 1300
                                     ELSE old.factor - 200)
                    /\ new.type_id = CardTypeEnum.REVIEW
                    /\ new.queue_id = QueueTypeEnum.REVIEW
              /\ (old.type_id = CardTypeEnum.REVIEW /\ r.ease = 2) =>
                    /\ new.lapses = old.lapses
                    /\ new.ivl = (IF (old.ivl * 6) \div 5 < 1 THEN 1
                                  ELSE (old.ivl * 6) \div 5)
                    /\ new.factor = (IF old.factor - 150 < 1300 THEN 1300
                                     ELSE old.factor - 150)]_vars

C5_Witness ==
    /\ \E r \in revlog : r.type = CardTypeEnum.REVIEW /\ r.ease = 1 /\ r.cid = 1
                         /\ r.ivl = 10 /\ r.factor = 2500
    /\ \E r \in revlog : r.type = CardTypeEnum.REVIEW /\ r.ease = 2 /\ r.cid = 1
                         /\ r.ivl = 1 /\ r.factor = 2300
    /\ cards[1].lapses = 1 /\ cards[1].factor = 2150 /\ cards[1].ivl = 1

\* C2: a review of a LEARNING card, with any ease, leaves it REVIEW in queue
\* REVIEW with interval 1 and due one day after the review timestamp; the
\* card as create_card makes it (card 2) is of type REVIEW exactly from its
\* second review on, whatever the eases.
C2_LearningToReview ==
    [][\A r \in NewRows :
          LET old == cards[r.cid]
              new == cards'[r.cid]
          IN  /\ old.type_id = CardTypeEnum.LEARNING =>
                    /\ new.type_id = CardTypeEnum.REVIEW
                    /\ new.queue_id = QueueTypeEnum.REVIEW
                    /\ new.ivl = 1
                    /\ new.due = ReviewedAt(r) + 86400
              /\ r.cid = 2 => (new.type_id = CardTypeEnum.REVIEW <=> new.reps >= 2)]_vars

C2_Witness ==
    /\ cards[2].reps = 2 /\ cards[2].type_id = CardTypeEnum.REVIEW
    /\ \E r \in revlog : r.cid = 2 /\ r.type = CardTypeEnum["NEW"] /\ r.ease = 1
    /\ \E r \in revlog : r.cid = 2 /\ r.type = CardTypeEnum.LEARNING /\ r.ease = 4

\* C6: every review_card call on an existing card, however soon after another
\* review, inserts exactly one RevLog row holding the card's pre-review
\* interval, factor and type, and adds exactly 1 to that card's reps.
C6_EveryReviewLogged ==
    [][\A c \in DOMAIN cards, e \in Eases, ms \in ReviewTimesMs, o \in Offsets :
          review_card(c, e, ms, o) =>
             /\ Cardinality(revlog') = Cardinality(revlog) + 1
             /\ \E r \in NewRows :
                   /\ r.cid = c /\ r.ivl = cards[c].ivl
                   /\ r.factor = cards[c].factor /\ r.type = cards[c].type_id
             /\ cards'[c].reps = cards[c].reps + 1]_vars

\* the notes of a notetype that carry a front text
NotesWithFront(front, mid) ==
    { n \in DOMAIN notes : notes[n].sfld = front /\ notes[n].mid = mid }

NotetypeId(type_name) == (CHOOSE t \in Notetypes : t.name = type_name).id

\* C7: create_card with the front of an existing note of the same notetype
\* raises the duplicate-note error and creates no note and no card; with the
\* front of a note of another notetype only, it creates its note and, for a
\* notetype that has templates, returns with one card per template.
C7_DuplicateFront ==
    [][/\ \A t \in { x.name : x \in Notetypes }, f \in Fronts, b \in Backs,
             g \in TagInputs, o \in Offsets :
             create_card(t, "Test Deck", f, b, g, o) =>
                /\ NotesWithFront(f, NotetypeId(t)) # {} =>
                      /\ response' = Raised("create_card", "Note with same sort field already exists in this notetype.")
                      /\ notes' = notes /\ cards' = cards /\ pending' = {}
                /\ NotesWithFront(f, NotetypeId(t)) = {} =>
                      /\ DOMAIN notes' = DOMAIN notes \cup {nextNoteId}
                      /\ nextNoteId \notin DOMAIN notes
                      /\ notes'[nextNoteId].sfld = f
                      /\ notes'[nextNoteId].mid = NotetypeId(t)
                      /\ pending' # {}
       /\ create_card_cards =>
             \A req \in pending :
                 TemplateOrds(req.mid) # <<>> =>
                    /\ response' = Returned("create_card")
                    /\ { cards'[c].ord : c \in { c \in DOMAIN cards' \ DOMAIN cards :
                                                  cards'[c].nid = req.nid } }
                          = { x.ord : x \in { x \in Templates : x.ntid = req.mid } }]_vars

\* one front under two notetypes, both notes with cards, and a third call with
\* that front rejected as a duplicate
C7_Witness ==
    /\ \E n1, n2 \in DOMAIN notes :
          /\ notes[n1].sfld = notes[n2].sfld /\ notes[n1].mid # notes[n2].mid
          /\ \E c \in DOMAIN cards : cards[c].nid = n1
          /\ \E c \in DOMAIN cards : cards[c].nid = n2
    /\ response = Raised("create_card", "Note with same sort field already exists in this notetype.")

\* C8: no two notes of one notetype have the same checksum.
C8_UniqueChecksum ==
    \A n1, n2 \in DOMAIN notes :
        (n1 # n2 /\ notes[n1].mid = notes[n2].mid) => notes[n1].csum # notes[n2].csum

\* what a delete_card call on card c removes: the card and nothing else from
\* the cards, the card's note exactly when no card references it any more,
\* and no other note; what stays is unchanged
DeletedExactly(c) ==
    LET note_id == cards[c].nid
    IN  /\ DOMAIN cards' = DOMAIN cards \ {c}
        /\ \A k \in DOMAIN cards' : cards'[k] = cards[k]
        /\ note_id \notin DOMAIN notes'
              <=> \A k \in DOMAIN cards' : cards'[k].nid # note_id
        /\ \A n \in DOMAIN notes \ {note_id} :
              n \in DOMAIN notes' /\ notes'[n] = notes[n]
        /\ note_id \in DOMAIN notes' => notes'[note_id] = notes[note_id]

\* C9: every delete_card call on an existing card removes exactly the named
\* card, removes the card's note if and only if no other card references it
\* after the deletion, and removes or changes no sibling card.
C9_DeleteCard ==
    [][\A c \in DOMAIN cards, o \in Offsets :
          delete_card(c, o) => DeletedExactly(c)]_vars

\* C9, for the calls that return: a delete_card call that returns removes
\* exactly the named card and the note it orphans; a call that raises removes
\* nothing.
C9_ReturnedDeleteCard ==
    [][\A c \in DOMAIN cards, o \in Offsets :
          delete_card(c, o) =>
             IF response'.status = "ok"
             THEN DeletedExactly(c)
             ELSE cards' = cards /\ notes' = notes]_vars

\* one of two sibling cards deleted, note and sibling left
C9_Witness ==
    /\ response = Returned("delete_card")
    /\ \E c \in DOMAIN cards :
          /\ cards[c].nid \in DOMAIN notes
          /\ notes[cards[c].nid].mid = 2
          /\ \A k \in DOMAIN cards : cards[k].nid = cards[c].nid => k = c

\* C10: the note of a create_card call and the cards generated from it, one
\* per template, are persisted by one commit: a step that persists a new note
\* persists its cards too.
C10_NoteAndCardsTogether ==
    [][\A n \in DOMAIN notes' \ DOMAIN notes :
          { cards'[c].ord : c \in { c \in DOMAIN cards' : cards'[c].nid = n } }
             = { x.ord : x \in { x \in Templates : x.ntid = notes'[n].mid } }]_vars

\* ------------------------------------------------------------ decks and cards
DeckFronts == { <<"Q">> }
DeckEases == { 3 }
DeckFrontUpdates == { None, <<"R">> }
DeckCardIds == 1..2

NextDeck ==
    \/ \E n \in NewDeckNames : create_deck(n)
    \/ \E d \in DeckIds : get_deck(d)
    \/ \E d \in DeckIds, n \in NameUpdates, k \in ConfigUpdates, o \in Offsets :
          update_deck(d, n, k, o)
    \/ \E d \in DeckIds, o \in Offsets : delete_deck(d, o)
    \/ \E c \in DeckCardIds : get_card(c)
    \/ \E t \in { "Basic", "Cloze" }, d \in DeckNames \cup NewDeckNames, f \in DeckFronts,
          b \in Backs, g \in TagInputs, o \in Offsets : create_card(t, d, f, b, g, o)
    \/ create_card_cards
    \/ \E c \in DeckCardIds, e \in DeckEases, ms \in ReviewTimesMs, o \in Offsets :
          review_card(c, e, ms, o)
    \/ \E c \in DeckCardIds, f \in DeckFrontUpdates, b \in BackUpdates, g \in TagUpdates,
          o \in Offsets : update_card(c, f, b, g, o)
    \/ \E c \in DeckCardIds, o \in Offsets : delete_card(c, o)

SpecDeck == Init /\ [][NextDeck]_vars

\* C11: no two decks have the same name.
C11_UniqueDeckName ==
    \A d1, d2 \in decks : d1.name = d2.name => d1 = d2

\* C12: every delete_deck call on an existing deck returns, and afterwards
\* the deck row is gone, no card of that deck is left, no RevLog row of such
\* a card is left, and no note whose cards were all in that deck is left.
C12_DeleteDeck ==
    [][\A d \in { x.id : x \in decks }, o \in Offsets :
          delete_deck(d, o) =>
             /\ response' = Returned("delete_deck")
             /\ DeckById(d)' = {}
             /\ \A c \in DOMAIN cards' : cards'[c].did # d
             /\ \A r \in revlog' : r.cid \in DOMAIN cards'
             /\ \A n \in DOMAIN notes' : \E c \in DOMAIN cards' : cards'[c].nid = n]_vars

\* C13: every business-rule failure of the card and deck services is reported
\* to the caller as an error and leaves the decks, notes, cards and review log
\* as they were.
Refused == response'.status = "error" /\ UNCHANGED <<decks, notes, cards, revlog>>

secret_token == "secret"      \* settings.security.secret_token
NoKey == "<no header>"        \* a request without the X-API-KEY header
ApiKeys == { NoKey, secret_token, "wrong" }

\* app.include_router(...): the routers the application serves
included == { "flashcards" }

\* the routers whose routes carry dependencies=[Depends(get_api_key)]
WithApiKey == { "flashcards", "ai" }

Routes == {
    [router |-> "flashcards", route |-> "cards/list"],
    [router |-> "flashcards", route |-> "cards/create"],
    [router |-> "flashcards", route |-> "decks/create"],
    [router |-> "flashcards", route |-> "decks/update"],
    [router |-> "ai", route |-> "generate-flashcard/create"],
    [router |-> "ai", route |-> "suggest-tags/get"],
    [router |-> "import", route |-> "import/formats"],
    [router |-> "import", route |-> "import/upload"],
    [router |-> "import", route |-> "import/validate"] }

\* APIKeyHeader(name='X-API-KEY') answers a request without the header itself:
\* 403 'Not authenticated', or 401 from the FastAPI releases that changed it;
\* the repository pins no release.
api_key_header == { "HTTP 403", "HTTP 401" }

\* the answers get_api_key can reject a key with; none when the key passes
get_api_key(api_key) ==
    IF api_key = NoKey THEN api_key_header
    ELSE IF api_key # secret_token THEN { "HTTP 403" }
    ELSE {}

get_api_key_AnyKey(api_key) == {}

\* what the application answers before a handler runs: 404 for a path of a
\* router it does not include, the key's rejection on a guarded route
Rejections(rt, api_key) ==
    IF rt.router \notin included THEN { "HTTP 404" }
    ELSE IF rt.router \in WithApiKey THEN get_api_key(api_key)
    ELSE {}

\* a request that never reaches its handler
rejected(rt, api_key) ==
    /\ \E e \in Rejections(rt, api_key) : response' = Raised(rt.route, e)
    /\ UNCHANGED <<decks, notes, cards, revlog, nextNoteId, nextCardId, now, pending, lib>>

Route(router, route) == [router |-> router, route |-> route]

\* the handlers of the flashcards router: the dependency, then the service call
create_flashcard(api_key, type_name, deck_name, front, back, tags, offset) ==
    /\ Rejections(Route("flashcards", "cards/create"), api_key) = {}
    /\ create_card(type_name, deck_name, front, back, tags, offset)

create_deck_route(api_key, name) ==
    /\ Rejections(Route("flashcards", "decks/create"), api_key) = {}
    /\ create_deck(name)

update_deck_route(api_key, deck_id, new_name, config_id, offset) ==
    /\ Rejections(Route("flashcards", "decks/update"), api_key) = {}
    /\ update_deck(deck_id, new_name, config_id, offset)

NextApi ==
    \/ \E rt \in Routes, k \in ApiKeys : rejected(rt, k)
    \/ \E k \in ApiKeys, t \in { "Basic", "Cloze" }, d \in DeckNames \cup NewDeckNames,
          f \in Fronts, b \in Backs, g \in TagInputs, o \in Offsets :
          create_flashcard(k, t, d, f, b, g, o)
    \/ create_card_cards
    \/ \E k \in ApiKeys, n \in NewDeckNames : create_deck_route(k, n)
    \/ \E k \in ApiKeys, d \in DeckIds, n \in NameUpdates, c \in ConfigUpdates,
          o \in Offsets : update_deck_route(k, d, n, c, o)

SpecApi == Init /\ [][NextApi]_vars

\* C14: a request to a flashcards or AI-assist route whose X-API-KEY header is
\* missing or differs from the configured secret is answered 403 and changes
\* no persisted state; the same request to an /import route is accepted.
C14_ApiKey ==
    [][\A rt \in Routes, k \in ApiKeys \ { secret_token } :
          rejected(rt, k) =>
             IF rt.router \in { "flashcards", "ai" }
             THEN response' = Raised(rt.route, "HTTP 403") /\ UNCHANGED db
             ELSE FALSE]_vars

\* C14, the part that holds: on the flashcards routes a key that is sent and
\* differs from the secret is answered 403, no handler runs for it, and the
\* persisted state is unchanged.
C14_WrongKeyForbidden ==
    [][\A rt \in { x \in Routes : x.router = "flashcards" } :
          /\ rejected(rt, "wrong") => response' = Raised(rt.route, "HTTP 403") /\ UNCHANGED db
          /\ \A n \in NewDeckNames : ~ create_deck_route("wrong", n)
          /\ \A n \in NewDeckNames : ~ create_deck_route(NoKey, n)]_vars

\* ------------------------------------------------------------ ImportResult
MaxResult == 3     \* cards, and errors, one ImportResult may collect

\* Flashcard(front=..., back=..., deck_name=...) and its __post_init__; the
\* fields no decision reads (tags, card_type, extra, source_file,
\* html_enabled, created_at) are left out
Flashcard(front, back, deck_name) ==
    [front |-> strip(front), back |-> strip(back),
     deck_name |-> IF deck_name = None \/ deck_name = <<>> THEN deck_name
                   ELSE strip(deck_name)]

\* ImportResult(source_file=...): the dataclass defaults
ImportResult ==
    [cards |-> <<>>, skipped_count |-> 0, errors |-> <<>>, deck_detected |-> FALSE]

\* self.cards.append(card)
add_card(self, card) == [self EXCEPT !.cards = Append(@, card)]

add_error_NoCount(self, error_message) ==
    [self EXCEPT !.errors = Append(@, error_message)]

\* self.errors.append(error_message); self.skipped_count += 1
add_error(self, error_message) ==
    [self EXCEPT !.errors = Append(@, error_message), !.skipped_count = @ + 1]

\* an error message f"Line {line_num}: {text}"; line_num 0 for a message
\* without a line
Message(line_num, text) == <<line_num, text>>

SampleCards ==
    { Flashcard(<<"Q">>, <<"A">>, None),
      Flashcard(<<"R">>, <<"B">>, <<"D">>) }

SampleErrors ==
    { Message(1, "Not enough fields (need at least front and back)"),
      Message(0, "No valid cards found in file") }

\* result.add_card(card)
AddCard(card) ==
    /\ Len(result.cards) < MaxResult
    /\ result' = add_card(result, card)
    /\ UNCHANGED <<svc, tmpdirs, job, reply, file, parsers, calls, created, html, csv, reqs>>

\* result.add_error(error_message)
AddError(error_message) ==
    /\ Len(result.errors) < MaxResult
    /\ result' = add_error(result, error_message)
    /\ UNCHANGED <<svc, tmpdirs, job, reply, file, parsers, calls, created, html, csv, reqs>>

NextResult ==
    \/ \E c \in SampleCards : AddCard(c)
    \/ \E m \in SampleErrors : AddError(m)

SpecResult == Init /\ [][NextResult]_vars

\* C17: after any sequence of add_card and add_error calls on a new
\* ImportResult, skipped_count equals the number of recorded error messages,
\* and an add_card call changes neither.
C17_LockStep ==
    /\ [](result.skipped_count = Len(result.errors))
    /\ [][\A c \in SampleCards :
            AddCard(c) => /\ result'.skipped_count = result.skipped_count
                          /\ result'.errors = result.errors
                          /\ result'.cards = Append(result.cards, c)]_vars

C17_Witness ==
    /\ result.skipped_count = 2
    /\ Len(result.errors) = 2
    /\ Len(result.cards) = 2
    /\ result.cards[2] = Flashcard(<<"R">>, <<"B">>, <<"D">>)

\* ------------------------------------------------------------ TxtParser
MaxLines == 3      \* lines of a text file

Upper == <<"A", "B", "C", "D", "E", "F", "G", "H", "I", "J", "K", "L", "M",
           "N", "O", "P", "Q", "R", "S", "T", "U", "V", "W", "X", "Y", "Z">>
Lower == <<"a", "b", "c", "d", "e", "f", "g", "h", "i", "j", "k", "l", "m",
           "n", "o", "p", "q", "r", "s", "t", "u", "v", "w", "x", "y", "z">>
Digits == <<"0", "1", "2", "3", "4", "5", "6", "7", "8", "9">>

Range(f) == { f[i] : i \in DOMAIN f }

\* str.lower(), character by character
lower(s) ==
    [i \in 1..Len(s) |->
        IF s[i] \in Range(Upper)
        THEN Lower[CHOOSE k \in 1..26 : Upper[k] = s[i]] ELSE s[i]]

\* the longest prefix of s made of characters of class
RECURSIVE TakeWhile(_, _)
TakeWhile(s, class) ==
    IF s # <<>> /\ Head(s) \in class
    THEN <<Head(s)>> \o TakeWhile(Tail(s), class) ELSE <<>>

\* s without TakeWhile(s, class)
DropWhile(s, class) == SubSeq(s, Len(TakeWhile(s, class)) + 1, Len(s))

\* int(digits)
RECURSIVE int(_)
int(digits) ==
    IF digits = <<>> THEN 0
    ELSE 10 * int(SubSeq(digits, 1, Len(digits) - 1))
         + (CHOOSE k \in 0..9 : Digits[k + 1] = digits[Len(digits)])

NoMatch == <<"<no match>">>   \* re.match(...) is None

\* the regular expression ^keyword, re.IGNORECASE: what follows the keyword
AfterKeyword(s, keyword) ==
    IF Len(s) >= Len(keyword) /\ lower(SubSeq(s, 1, Len(keyword))) = keyword
    THEN SubSeq(s, Len(keyword) + 1, Len(s)) ELSE NoMatch

\* [:\s]+(\w+) or [:\s]+(\d+) on what follows a keyword: the group
GroupAfterColon(rest, class) ==
    IF rest = NoMatch THEN NoMatch
    ELSE LET after == DropWhile(rest, { ":" } \cup Whitespace)
         IN  IF Len(after) = Len(rest) \/ TakeWhile(after, class) = <<>>
             THEN NoMatch ELSE TakeWhile(after, class)

WordChars == Range(Upper) \cup Range(Lower) \cup Range(Digits) \cup { "_" }

SEPARATOR_MAP ==
    { << <<"t", "a", "b">>, TAB >>,
      << <<"c", "o", "m", "m", "a">>, "," >>,
      << <<"s", "e", "m", "i", "c", "o", "l", "o", "n">>, ";" >>,
      << <<"s", "p", "a", "c", "e">>, SP >>,
      << <<"p", "i", "p", "e">>, "|" >> }

\* AnkiHeaderParser.parse_separator: ^#separator[:\s]+(\w+)
parse_separator(line) ==
    LET group == GroupAfterColon(
                    AfterKeyword(strip(line),
                        <<"#", "s", "e", "p", "a", "r", "a", "t", "o", "r">>),
                    WordChars)
    IN  IF group = NoMatch THEN NoMatch
        ELSE IF \E e \in SEPARATOR_MAP : e[1] = lower(group)
        THEN <<(CHOOSE e \in SEPARATOR_MAP : e[1] = lower(group))[2]>>
        ELSE <<TAB>>

\* AnkiHeaderParser.parse_column_index for ^#deck\s+column[:\s]+(\d+); the
\* notetype, tags and guid columns, like the html setting, feed the fields
\* left out of Flashcard
parse_column_index(line) ==
    LET rest == AfterKeyword(strip(line), <<"#", "d", "e", "c", "k">>)
        word == IF rest = NoMatch THEN NoMatch ELSE DropWhile(rest, Whitespace)
        group == IF word = NoMatch \/ Len(word) = Len(rest) THEN NoMatch
                 ELSE GroupAfterColon(
                         AfterKeyword(word, <<"c", "o", "l", "u", "m", "n">>),
                         Range(Digits))
    IN  IF group = NoMatch THEN NoMatch ELSE <<"deck", int(group)>>

\* AnkiHeaderParser.is_header_line
is_header_line(line) == LET t == strip(line) IN t # <<>> /\ Head(t) = "#"

\* the number of header lines at the top of the file
RECURSIVE header_lines_count(_)
header_lines_count(lines) ==
    IF lines # <<>> /\ is_header_line(Head(lines))
    THEN 1 + header_lines_count(Tail(lines)) ELSE 0

\* AnkiHeaderParser.parse_all_headers, from the settings read so far
RECURSIVE parse_all_headers(_, _)
parse_all_headers(lines, settings) ==
    IF lines = <<>> \/ ~ is_header_line(Head(lines)) THEN settings
    ELSE parse_all_headers(Tail(lines),
            IF parse_separator(Head(lines)) # NoMatch
            THEN [settings EXCEPT !.separator = parse_separator(Head(lines))[1]]
            ELSE IF parse_column_index(Head(lines)) # NoMatch
            THEN [settings EXCEPT
                    !.columns = ("deck" :> parse_column_index(Head(lines))[2]) @@ @]
            ELSE settings)

DefaultSettings == [separator |-> TAB, columns |-> EmptyTable]

\* line.rstrip('\n\r')
RECURSIVE rstrip_newline(_)
rstrip_newline(s) ==
    IF s # <<>> /\ s[Len(s)] \in { NL, CR }
    THEN rstrip_newline(SubSeq(s, 1, Len(s) - 1)) ELSE s

\* parts[i] of a Python list, i zero-based and possibly negative
Item(parts, i) == IF i >= 0 THEN parts[i + 1] ELSE parts[Len(parts) + i + 1]

\* CardValidator.validate_content: the error, or "" for valid content (no
\* content of the model reaches MAX_CONTENT_LENGTH)
validate_content(content) ==
    IF content = <<>> \/ strip(content) = <<>> THEN "Content is empty" ELSE ""

parse_line_Unrecorded(line, line_num, separator, columns, result0) ==
    LET parts == split(line, separator)
    IN  IF Len(parts) < 2 THEN result0
        ELSE add_card(result0, Flashcard(parts[1], parts[2], None))

\* TxtParser._parse_line and the add_card that follows it in parse: the
\* result with the line's card, or with the line's error
parse_line(line, line_num, separator, columns, result0) ==
    LET parts == split(line, separator)
        front == strip(parts[1])
        back == strip(parts[2])
        deck_col == columns["deck"] - 1
        deck_name ==
            IF "deck" \in DOMAIN columns /\ deck_col < Len(parts)
                  /\ strip(Item(parts, deck_col)) # <<>>
            THEN strip(Item(parts, deck_col)) ELSE None
    IN  IF Len(parts) < 2
        THEN add_error(result0,
                Message(line_num, "Not enough fields (need at least front and back)"))
        ELSE IF validate_content(front) # ""
        THEN add_error(result0, Message(line_num, "Front field - Content is empty"))
        ELSE IF validate_content(back) # ""
        THEN add_error(result0, Message(line_num, "Back field - Content is empty"))
        ELSE add_card(result0, Flashcard(front, back, deck_name))

\* the loop of TxtParser.parse over the data lines
RECURSIVE parse_lines(_, _, _, _, _)
parse_lines(data_lines, line_num, separator, columns, result0) ==
    IF data_lines = <<>> THEN result0
    ELSE LET line == rstrip_newline(Head(data_lines))
         IN  parse_lines(Tail(data_lines), line_num + 1, separator, columns,
                IF strip(line) = <<>> THEN result0
                ELSE parse_line(line, line_num, separator, columns, result0))

\* TxtParser.parse on the lines readlines() gives
parse(lines) ==
    LET settings == parse_all_headers(lines, DefaultSettings)
        count == header_lines_count(lines)
        parsed == parse_lines(SubSeq(lines, count + 1, Len(lines)), count + 1,
                     settings.separator, settings.columns,
                     [ImportResult EXCEPT
                        !.deck_detected = "deck" \in DOMAIN settings.columns])
    IN  IF parsed.cards = <<>>
        THEN add_error(parsed, Message(0, "No valid cards found in file"))
        ELSE parsed

\* the text lines tried, without their newline
LineTexts ==
    { <<"Q", TAB, "A">>,
      <<SP, "R", TAB, "B">>,
      <<"Q", ",", "A">>,
      <<"Q", TAB, "A", TAB, "D">>,
      <<"#", "Q", TAB, "A">>,
      <<"Q">>,
      <<>>,
      <<"#", "s", "e", "p", "a", "r", "a", "t", "o", "r", ":", "C", "o", "m", "m", "a">>,
      <<"#", "d", "e", "c", "k", SP, "c", "o", "l", "u", "m", "n", ":", "3">> }

Lines == { Append(t, NL) : t \in LineTexts }

Files == UNION { [1..n -> Lines] : n \in 0..MaxLines }

InitParse ==
    /\ decks = SeedDecks
    /\ notes = EmptyTable
    /\ cards = EmptyTable
    /\ revlog = {}
    /\ nextNoteId = 1
    /\ nextCardId = 1
    /\ now = 0
    /\ pending = {}
    /\ response = Raised("", "")
    /\ tmpdirs = {}
    /\ job = {}
    /\ reply = [op |-> "", error |-> "", dir |-> 0, body |-> <<>>]
    /\ file \in Files
    /\ result = ImportResult
    /\ parsers = EmptyTable
    /\ calls = <<>>
    /\ created = [called |-> "", parser |-> "", error |-> ""]
    /\ html = NoHtml
    /\ csv = NoCsv
    /\ reqs = EmptyTable

\* result = TxtParser(file).parse()
TxtParser_parse ==
    /\ reply.op = ""
    /\ result' = parse(file)
    /\ reply' = [reply EXCEPT !.op = "TxtParser.parse"]
    /\ UNCHANGED <<svc, tmpdirs, job, file, parsers, calls, created, html, csv, reqs>>

NextParse == TxtParser_parse

SpecParse == InitParse /\ [][NextParse]_vars

\* a line of two tab-separated fields, both with content
WellFormed(line) ==
    LET parts == split(rstrip_newline(line), TAB)
    IN  Len(parts) = 2 /\ strip(parts[1]) # <<>> /\ strip(parts[2]) # <<>>

\* a line with fewer than two tab-separated fields
FewerThanTwoFields(line) == Len(split(rstrip_newline(line), TAB)) < 2

\* the card of each well-formed line, in the file's order
RECURSIVE CardsOf(_)
CardsOf(lines) ==
    IF lines = <<>> THEN <<>>
    ELSE (IF WellFormed(Head(lines))
          THEN LET parts == split(rstrip_newline(Head(lines)), TAB)
               IN  << Flashcard(parts[1], parts[2], None) >>
          ELSE <<>>) \o CardsOf(Tail(lines))

\* the file is N well-formed lines
AllWellFormed == \A i \in 1..Len(file) : WellFormed(file[i])

\* the file is N well-formed lines and, at k, one line of fewer than two fields
OneMalformedAt(k) ==
    /\ FewerThanTwoFields(file[k])
    /\ \A i \in 1..Len(file) : i # k => WellFormed(file[i])

\* C16: TxtParser.parse on a file of N well-formed tab-separated two-field
\* lines returns exactly N cards and skipped_count 0; with one further line
\* of fewer than two fields the result has the same N cards, skipped_count 1
\* and one error message, the lines after the malformed one being parsed too.
C16_Original ==
    reply.op = "TxtParser.parse" =>
       /\ AllWellFormed =>
             /\ result.cards = CardsOf(file)
             /\ Len(result.cards) = Len(file)
             /\ result.skipped_count = 0
       /\ \A k \in 1..Len(file) : OneMalformedAt(k) =>
             /\ result.cards = CardsOf(file)
             /\ Len(result.cards) = Len(file) - 1
             /\ result.skipped_count = 1
             /\ Len(result.errors) = 1

\* C16 as the parser has it: the same, for N >= 1, a file whose first line
\* does not begin with '#' (such lines at the top are headers, not data), and
\* a malformed line that is not blank (blank lines are passed over silently).
C16_TxtParse ==
    (/\ reply.op = "TxtParser.parse"
     /\ file # <<>>
     /\ ~ is_header_line(file[1])) =>
       /\ AllWellFormed =>
             /\ result.cards = CardsOf(file)
             /\ Len(result.cards) = Len(file)
             /\ result.skipped_count = 0
             /\ result.errors = <<>>
       /\ \A k \in 1..Len(file) :
             (OneMalformedAt(k) /\ Len(file) >= 2 /\ strip(file[k]) # <<>>) =>
                /\ result.cards = CardsOf(file)
                /\ Len(result.cards) = Len(file) - 1
                /\ result.skipped_count = 1
                /\ result.errors =
                      << Message(k, "Not enough fields (need at least front and back)") >>

C16_Witness ==
    /\ reply.op = "TxtParser.parse"
    /\ Len(file) = 3
    /\ OneMalformedAt(2)
    /\ file[2] = <<"Q", NL>>
    /\ Len(result.cards) = 2
    /\ result.skipped_count = 1

\* ------------------------------------------------------------ ParserFactory
MaxCalls == 3      \* register and clear calls in one behaviour

ParserClasses == { "TxtParser", "CsvParser" }

\* the SUPPORTED_EXTENSIONS of each parser class
SUPPORTED_EXTENSIONS ==
    [TxtParser |-> { <<".", "t", "x", "t">> },
     CsvParser |-> { <<".", "c", "s", "v">>, <<".", "t", "s", "v">> },
     ApkgParser |-> { <<".", "a", "p", "k", "g">>, <<".", "c", "o", "l", "p", "k", "g">> }]

\* the extensions register is called with
Extensions ==
    { <<".", "t", "x", "t">>, <<".", "T", "x", "t">>, <<".", "c", "s", "v">> }

\* the file names create is called with
FileNames ==
    { <<"a", ".", "t", "x", "t">>, <<"a", ".", "T", "X", "T">>,
      <<"b", ".", "a", ".", "C", "s", "v">>, <<"n", "o", "e", "x", "t">> }

\* Path(file_path).suffix: from the last dot of the name, when that dot is
\* neither the first nor the last character
suffix(name) ==
    LET dots == { i \in 2..(Len(name) - 1) : name[i] = "." }
    IN  IF dots = {} \/ name[Len(name)] = "." THEN <<>>
        ELSE SubSeq(name, CHOOSE i \in dots : \A j \in dots : j <= i, Len(name))

register_AsGiven(extension, parser_class) ==
    /\ Len(calls) < MaxCalls
    /\ parsers' = (extension :> parser_class) @@ parsers
    /\ calls' = Append(calls, <<"register", extension, parser_class>>)
    /\ UNCHANGED <<svc, tmpdirs, job, reply, file, result, created, html, csv, reqs>>

\* cls._parsers[extension.lower()] = parser_class
register(extension, parser_class) ==
    /\ Len(calls) < MaxCalls
    /\ parsers' = (lower(extension) :> parser_class) @@ parsers
    /\ calls' = Append(calls, <<"register", extension, parser_class>>)
    /\ UNCHANGED <<svc, tmpdirs, job, reply, file, result, created, html, csv, reqs>>

\* cls._parsers = {}
clear ==
    /\ Len(calls) < MaxCalls
    /\ parsers' = EmptyTable
    /\ calls' = Append(calls, <<"clear">>)
    /\ UNCHANGED <<svc, tmpdirs, job, reply, file, result, created, html, csv, reqs>>

\* BaseParser.__init__ / _validate_file of parser_class on a file: the error
\* raised, or "" when the instance is built
BaseParser_validate_file(parser_class, name, exists) ==
    IF ~ exists THEN "FileNotFoundError"
    ELSE IF SUPPORTED_EXTENSIONS[parser_class] # {}
            /\ lower(suffix(name)) \notin SUPPORTED_EXTENSIONS[parser_class]
    THEN "FileFormatError"
    ELSE ""

\* what ParserFactory.create(file_path) does on a registry: the class whose
\* constructor it calls, the instance's class when one is returned, the error
Created(registry, name, exists) ==
    LET extension == lower(suffix(name))
    IN  IF extension \notin DOMAIN registry
        THEN [called |-> "", parser |-> "", error |-> "FileFormatError"]
        ELSE [called |-> registry[extension],
              parser |-> IF BaseParser_validate_file(registry[extension], name, exists) = ""
                         THEN registry[extension] ELSE "",
              error |-> BaseParser_validate_file(registry[extension], name, exists)]

\* parser = ParserFactory.create(file_path), the file existing or not
create(name, exists) ==
    /\ created' = Created(parsers, name, exists)
    /\ reply' = [op |-> "ParserFactory.create", error |-> created'.error,
                 dir |-> 0, body |-> name]
    /\ UNCHANGED <<svc, tmpdirs, job, file, result, parsers, calls, html, csv, reqs>>

NextFactory ==
    \/ \E e \in Extensions, c \in ParserClasses : register(e, c)
    \/ clear
    \/ \E n \in FileNames, x \in BOOLEAN : create(n, x)

SpecFactory == Init /\ [][NextFactory]_vars

\* the class of the last register call for the extension, in any letter case,
\* after the last clear call; "" when there is none
RECURSIVE MostRecentlyRegistered(_, _)
MostRecentlyRegistered(history, extension) ==
    IF history = <<>> \/ history[Len(history)] = <<"clear">> THEN ""
    ELSE IF lower(history[Len(history)][2]) = lower(extension)
    THEN history[Len(history)][3]
    ELSE MostRecentlyRegistered(SubSeq(history, 1, Len(history) - 1), extension)

CATEGORY_PATTERNS ==
    << [category |-> <<"p", "r", "o", "g", "r", "a", "m", "m", "i", "n", "g">>,
        keywords |-> { <<"a", "p", "i">>, <<"s", "q", "l">> }],
       [category |-> <<"s", "c", "i", "e", "n", "c", "e">>,
        keywords |-> { <<"d", "n", "a">> }] >>

\* kw in text
Contains(text, kw) ==
    \E i \in 1..(Len(text) - Len(kw) + 1) : SubSeq(text, i, i + Len(kw) - 1) = kw

\* str.title() of one lower-case word
title(word) ==
    IF word = <<>> THEN word
    ELSE << IF word[1] \in Range(Lower)
            THEN Upper[CHOOSE k \in 1..26 : Lower[k] = word[1]] ELSE word[1] >>
         \o Tail(word)

\* not card.deck_name
no_deck_name(card) == card.deck_name = None \/ card.deck_name = <<>>

\* DeckDetector.group_cards_by_suggested_deck: the group of one card
suggested_deck(card) ==
    LET text == lower(card.front \o <<SP>> \o card.back \o <<SP>>)
        matching == { k \in 1..Len(CATEGORY_PATTERNS) :
                        \E kw \in CATEGORY_PATTERNS[k].keywords : Contains(text, kw) }
    IN  IF matching = {} THEN <<"G", "e", "n", "e", "r", "a", "l">>
        ELSE title(CATEGORY_PATTERNS[CHOOSE k \in matching :
                                        \A m \in matching : k <= m].category)

\* DeckDetector.analyze_deck_coverage, the two counts _process_cards reads
analyze_deck_coverage(cardlist) ==
    [total_cards |-> Len(cardlist),
     cards_without_deck |->
        Cardinality({ i \in 1..Len(cardlist) : no_deck_name(cardlist[i]) })]

\* MissingDeckHandler.assign_default_deck
assign_default_deck(cardlist, default_name) ==
    [i \in 1..Len(cardlist) |->
        IF no_deck_name(cardlist[i])
        THEN [cardlist[i] EXCEPT !.deck_name = default_name] ELSE cardlist[i]]

\* MissingDeckHandler.assign_suggested_decks
assign_suggested_decks(cardlist) ==
    [i \in 1..Len(cardlist) |->
        IF no_deck_name(cardlist[i])
        THEN [cardlist[i] EXCEPT !.deck_name = suggested_deck(cardlist[i])]
        ELSE cardlist[i]]

\* an ImportLogger entry
Info(message) == <<"info", message>>
Warning(message) == <<"warning", message>>

\* ImportLogger.get_warnings
get_warnings(entries) ==
    SelectSeq(entries, LAMBDA e : e[1] = "warning")

process_cards_DefaultFirst(cardlist, default_deck, auto_assign_decks, entries) ==
    IF analyze_deck_coverage(cardlist).cards_without_deck > 0
    THEN IF default_deck # None /\ default_deck # <<>>
         THEN [cards |-> assign_default_deck(cardlist, default_deck),
               entries |-> Append(entries, Info("Assigned default deck"))]
         ELSE IF auto_assign_decks
         THEN [cards |-> assign_suggested_decks(cardlist),
               entries |-> Append(entries, Info("Auto-assigned decks"))]
         ELSE [cards |-> cardlist,
               entries |-> Append(entries, Warning("missing deck information"))]
    ELSE [cards |-> cardlist, entries |-> entries]

\* ImportService._process_cards: the cards it returns and the logger's
\* entries after it (strip_html and the preview texts touch no deck name)
process_cards(cardlist, default_deck, auto_assign_decks, entries) ==
    IF analyze_deck_coverage(cardlist).cards_without_deck > 0
    THEN IF auto_assign_decks
         THEN [cards |-> assign_suggested_decks(cardlist),
               entries |-> Append(entries, Info("Auto-assigned decks"))]
         ELSE IF default_deck # None /\ default_deck # <<>>
         THEN [cards |-> assign_default_deck(cardlist, default_deck),
               entries |-> Append(entries, Info("Assigned default deck"))]
         ELSE [cards |-> cardlist,
               entries |-> Append(entries, Warning("missing deck information"))]
    ELSE [cards |-> cardlist, entries |-> entries]

\* ------------------------------------------------------------ ImportService
MAX_FILE_SIZE == 50        \* MiB
MaxDirs == 2               \* names tempfile.mkdtemp can give

ALLOWED_EXTENSIONS ==
    { <<".", "t", "x", "t">>, <<".", "c", "s", "v">>, <<".", "t", "s", "v">>,
      <<".", "x", "l", "s", "x">>, <<".", "x", "l", "s">>,
      <<".", "a", "p", "k", "g">>, <<".", "c", "o", "l", "p", "k", "g">> }

\* ParserFactory._parsers once flashcard_importer.parsers is imported, where
\* openpyxl is not installed (XlsxParser then registers nothing)
RegisteredParsers ==
    (<<".", "t", "x", "t">> :> "TxtParser")
    @@ (<<".", "c", "s", "v">> :> "CsvParser")
    @@ (<<".", "t", "s", "v">> :> "CsvParser")
    @@ (<<".", "a", "p", "k", "g">> :> "ApkgParser")
    @@ (<<".", "c", "o", "l", "p", "k", "g">> :> "ApkgParser")

Undecodable == << <<"<not UTF-8>">> >>   \* content readlines() cannot decode

DeckColumn3 ==
    <<"#", "d", "e", "c", "k", SP, "c", "o", "l", "u", "m", "n", ":", "3", NL>>

\* the uploaded contents tried: no card; cards without a deck; cards with and
\* without; cards with a deck only; one malformed line; undecodable bytes
UploadContents ==
    { <<>>,
      << <<"s", "q", "l", TAB, "A", NL>>, <<"Q", TAB, "A", NL>> >>,
      << DeckColumn3, <<"Q", TAB, "A", TAB, "D", NL>>, <<"s", "q", "l", TAB, "A", NL>> >>,
      << DeckColumn3, <<"Q", TAB, "A", TAB, "D", NL>> >>,
      << <<"Q", NL>> >>,
      Undecodable }

UploadNames ==
    { <<"a", ".", "T", "X", "T">>, <<"a", ".", "x", "y", "z">>,
      <<"a", ".", "x", "l", "s", "x">>, <<"d", "/", "a", ".", "t", "x", "t">> }

UploadSizes == { 1, MAX_FILE_SIZE + 1 }     \* MiB

\* an UploadFile; only a text file name comes with each content and size
Uploads ==
    { u \in [filename : UploadNames, content : UploadContents, size : UploadSizes] :
        u.filename # <<"a", ".", "T", "X", "T">>
           => u.content = <<>> /\ u.size = 1 }

DefaultDecks == { None, <<>>, <<"M">> }

NoReply == [op |-> "", error |-> "", dir |-> 0, body |-> <<>>]

\* shutil.rmtree(temp_dir, ignore_errors=True) on a directory the operation
\* made itself
rmtree_Kept(dirs, temp_dir) == dirs

rmtree(dirs, temp_dir) == dirs \ { temp_dir }

\* the frame of import_from_file or preview_file once temp_dir exists
Frame(op, via, upload, temp_dir, default_deck, auto_assign_decks) ==
    [op |-> op, via |-> via, file |-> upload, temp_dir |-> temp_dir,
     default_deck |-> default_deck, auto_assign_decks |-> auto_assign_decks,
     pc |-> "write", exc |-> "", parser |-> "", result |-> ImportResult,
     cards |-> <<>>, entries |-> <<>>]

\* what validate_file answers from the preview, or from the exception
validate_answer(exc, result0, filename) ==
    IF exc # ""
    THEN [code |-> 200, valid |-> FALSE, filename |-> filename,
          total_cards |-> 0, can_import |-> FALSE,
          issues |-> << IF exc = "FileFormatError" THEN "Invalid or unsupported file format"
                        ELSE "Validation error" >>]
    ELSE LET total_cards == Len(result0.cards)
             issues ==
                (IF total_cards = 0 THEN << "No valid cards found in file" >> ELSE <<>>)
                \o (IF ~ result0.deck_detected
                    THEN << "No deck information found - cards will need deck assignment" >>
                    ELSE <<>>)
         IN  [code |-> 200, valid |-> Len(issues) = 0 \/ total_cards > 0,
              filename |-> filename, total_cards |-> total_cards, can_import |-> total_cards > 0,
              issues |-> issues]

\* what the operation of frame f returns, or the exception it raises
Answer(f) ==
    [op |-> IF f.via = "" THEN f.op ELSE f.via,
     error |-> IF f.via = "validate_file" THEN "" ELSE f.exc,
     dir |-> f.temp_dir,
     body |-> IF f.via = "validate_file" THEN validate_answer(f.exc, f.result, f.file.filename)
              ELSE IF f.exc # "" THEN <<>>
              ELSE IF f.op = "import_from_file"
              THEN [cards |-> f.cards, warnings |-> get_warnings(f.entries),
                    total_skipped |-> f.result.skipped_count,
                    deck_detected |-> f.result.deck_detected]
              ELSE [total_cards |-> Len(f.result.cards),
                    has_deck_info |-> f.result.deck_detected]]

\* the extension check and mkdtemp that open import_from_file and preview_file
Begin(op, via, upload, default_deck, auto_assign_decks) ==
    /\ job = {}
    /\ IF lower(suffix(upload.filename)) \notin ALLOWED_EXTENSIONS
       THEN /\ reply' = [Answer([Frame(op, via, upload, 0, default_deck, auto_assign_decks)
                                   EXCEPT !.exc = "FileFormatError"])
                           EXCEPT !.dir = 0]
            /\ UNCHANGED <<tmpdirs, job>>
       ELSE /\ \E temp_dir \in (1..MaxDirs) \ tmpdirs :
                 /\ tmpdirs' = tmpdirs \cup { temp_dir }
                 /\ job' = { Frame(op, via, upload, temp_dir, default_deck,
                                   auto_assign_decks) }
            /\ reply' = NoReply
    /\ UNCHANGED <<svc, file, result, parsers, calls, created, html, csv, reqs>>

\* ImportService.import_from_file, up to the try
import_from_file(upload, default_deck, auto_assign_decks) ==
    Begin("import_from_file", "", upload, default_deck, auto_assign_decks)

\* ImportService.preview_file, up to the try
preview_file(upload) == Begin("preview_file", "", upload, None, FALSE)

\* the /validate handler: its call of ImportService.preview_file
validate_file(upload) == Begin("preview_file", "validate_file", upload, None, FALSE)

\* one step of the frame in progress
Step(f, g) ==
    /\ f \in job
    /\ job' = { g }
    /\ UNCHANGED <<svc, tmpdirs, reply, file, result, parsers, calls, created, html, csv, reqs>>

Raise(f, exc) == [f EXCEPT !.exc = exc, !.pc = "finally"]

\* open(temp_file, 'wb'), file.read(), the size check, f.write(content)
write_upload ==
    \E f \in job :
       /\ f.pc = "write"
       /\ Step(f,
             IF \E i \in 1..Len(f.file.filename) : f.file.filename[i] = "/"
             THEN Raise(f, "FileNotFoundError")
             ELSE IF f.op = "import_from_file" /\ f.file.size > MAX_FILE_SIZE
             THEN Raise(f, "FlashcardImportError")
             ELSE [f EXCEPT !.pc = "create",
                            !.entries = IF f.op = "import_from_file"
                                        THEN Append(@, Info("Processing file")) ELSE @])

\* parser = ParserFactory.create(temp_file)
create_parser ==
    \E f \in job :
       /\ f.pc = "create"
       /\ LET c == Created(parsers, f.file.filename, TRUE)
          IN  Step(f, IF c.error # "" THEN Raise(f, c.error)
                      ELSE [f EXCEPT !.parser = c.parser, !.pc = "parse"])

\* parser.detect_settings() in preview_file, and parser.parse()
parse_upload ==
    \E f \in job :
       /\ f.pc = "parse"
       /\ f.parser = "TxtParser"
       /\ Step(f,
             IF f.file.content = Undecodable THEN Raise(f, "UnicodeDecodeError")
             ELSE [f EXCEPT !.result = parse(f.file.content),
                            !.cards = parse(f.file.content).cards,
                            !.entries = IF f.op = "import_from_file"
                                        THEN Append(@, Info("Parsed cards")) ELSE @,
                            !.pc = IF f.op = "import_from_file" THEN "process"
                                   ELSE "finally"])

\* cls._process_cards(...) and cls._build_response(...)
process_upload ==
    \E f \in job :
       /\ f.pc = "process"
       /\ LET p == process_cards(f.result.cards, f.default_deck,
                                 f.auto_assign_decks, f.entries)
          IN  Step(f, [f EXCEPT !.cards = p.cards, !.entries = p.entries,
                                !.pc = "finally"])

\* finally: shutil.rmtree(temp_dir, ignore_errors=True); then the operation
\* returns or raises
finally ==
    \E f \in job :
       /\ f.pc = "finally"
       /\ tmpdirs' = rmtree(tmpdirs, f.temp_dir)
       /\ job' = {}
       /\ reply' = Answer(f)
       /\ UNCHANGED <<svc, file, result, parsers, calls, created, html, csv, reqs>>

InitImport ==
    /\ decks = SeedDecks
    /\ notes = EmptyTable
    /\ cards = EmptyTable
    /\ revlog = {}
    /\ nextNoteId = 1
    /\ nextCardId = 1
    /\ now = 0
    /\ pending = {}
    /\ response = Raised("", "")
    /\ tmpdirs = {}
    /\ job = {}
    /\ reply = NoReply
    /\ file = <<>>
    /\ result = ImportResult
    /\ parsers = RegisteredParsers
    /\ calls = <<>>
    /\ created = [called |-> "", parser |-> "", error |-> ""]
    /\ html = NoHtml
    /\ csv = NoCsv
    /\ reqs = EmptyTable

NextImport ==
    \/ \E u \in Uploads, d \in DefaultDecks, a \in BOOLEAN : import_from_file(u, d, a)
    \/ \E u \in Uploads : preview_file(u)
    \/ \E u \in Uploads : validate_file(u)
    \/ write_upload
    \/ create_parser
    \/ parse_upload
    \/ process_upload
    \/ finally

SpecImport == InitImport /\ [][NextImport]_vars

\* C15: on every exit path of import_from_file and preview_file after the
\* temporary directory has been created, the directory no longer exists when
\* the operation returns or raises; no directory outlives its operation.
C15_TempDirRemoved ==
    /\ [](\A d \in tmpdirs : \E f \in job : f.temp_dir = d)
    /\ [][\A f \in job : f \notin job' /\ job' = {} =>
             /\ f.temp_dir \notin tmpdirs'
             /\ reply'.dir = f.temp_dir
             /\ reply'.op # ""]_vars

C15_Witness ==
    /\ reply.op = "import_from_file"
    /\ reply.error = "FlashcardImportError"
    /\ reply.dir = 2
    /\ tmpdirs = {}
    /\ job = {}

\* C19: in import_from_file, when at least one parsed card lacks a deck name,
\* exactly one of three things is done, in this precedence: suggested decks
\* are assigned if auto_assign_decks is set; otherwise the default deck is
\* assigned if a (non-empty) default_deck is given; otherwise one warning is
\* logged and no deck name changes.  When no card lacks a deck name none of
\* the three is done.  A card that has a deck name keeps it in every case.
C19_MissingDeckPrecedence ==
    [][\A f \in job :
          (f.pc = "process" /\ process_upload) =>
             LET g == CHOOSE x \in job' : TRUE
                 before == f.result.cards
                 after == g.cards
                 lacking == { i \in 1..Len(before) : no_deck_name(before[i]) }
                 logged == SubSeq(g.entries, Len(f.entries) + 1, Len(g.entries))
             IN  /\ Len(after) = Len(before)
                 /\ \A i \in (1..Len(before)) \ lacking : after[i] = before[i]
                 /\ IF lacking = {} THEN logged = <<>>
                    ELSE IF f.auto_assign_decks
                    THEN /\ logged = << Info("Auto-assigned decks") >>
                         /\ \A i \in lacking :
                               after[i] = [before[i] EXCEPT
                                             !.deck_name = suggested_deck(before[i])]
                    ELSE IF f.default_deck # None /\ f.default_deck # <<>>
                    THEN /\ logged = << Info("Assigned default deck") >>
                         /\ \A i \in lacking :
                               after[i] = [before[i] EXCEPT !.deck_name = f.default_deck]
                    ELSE /\ logged = << Warning("missing deck information") >>
                         /\ after = before]_vars

C19_Witness ==
    /\ reply.op = "import_from_file"
    /\ reply.error = ""
    /\ reply.body.warnings = <<>>
    /\ reply.body.cards =
          << [front |-> <<"Q">>, back |-> <<"A">>, deck_name |-> <<"D">>],
             [front |-> <<"s", "q", "l">>, back |-> <<"A">>,
              deck_name |-> <<"P", "r", "o", "g", "r", "a", "m", "m", "i", "n", "g">>] >>

\* C18: POST /import/validate always answers HTTP 200.
C18_ValidateAnswers200 ==
    response.op = "import/validate" => response.status = "ok"

\* C18, the handler by itself (no request reaches it while the import router
\* is not included): validate_file answers 200; valid = (no issue) or
\* (total_cards > 0) and can_import = (total_cards > 0); cards without deck
\* information are valid with the no-deck-information issue listed; an
\* unsupported extension is valid = false, can_import = false.
C18_ValidateHandler ==
    reply.op = "validate_file" =>
       /\ reply.error = ""
       /\ reply.body.code = 200
       /\ reply.body.valid = (reply.body.issues = <<>> \/ reply.body.total_cards > 0)
       /\ reply.body.can_import = (reply.body.total_cards > 0)
       /\ lower(suffix(reply.body.filename)) \notin ALLOWED_EXTENSIONS =>
             ~ reply.body.valid /\ ~ reply.body.can_import
       /\ reply.body.total_cards > 0 /\ reply.body.issues # <<>> =>
             /\ reply.body.valid
             /\ reply.body.issues =
                   << "No deck information found - cards will need deck assignment" >>

C18_HandlerWitness ==
    /\ reply.op = "validate_file"
    /\ reply.body.valid
    /\ reply.body.total_cards = 2
    /\ reply.body.issues # <<>>

\* ------------------------------------------------------------ new cards' due
\* the NEW-type, NEW-queue cards of a deck among the cards ids of a table
NewInDeck(cs, ids, did) ==
    { k \in ids : /\ cs[k].did = did
                  /\ cs[k].type_id = CardTypeEnum["NEW"]
                  /\ cs[k].queue_id = QueueTypeEnum["NEW"] }

\* C23: every card create_card creates gets due = 1 + the largest due among
\* the NEW/NEW cards of the target deck at that moment (0 if there is none),
\* the cards created earlier in the same call included, so its due is greater
\* than the due of each of them.
C23_DueAboveEveryNewCard ==
    [][create_card_cards =>
          \A req \in pending :
              \A c \in DOMAIN cards' \ DOMAIN cards :
                  LET earlier == { k \in DOMAIN cards' : k \in DOMAIN cards \/ k < c }
                      before == NewInDeck(cards', earlier, req.did)
                  IN  /\ cards'[c].did = req.did
                      /\ \A k \in before : cards'[c].due > cards'[k].due
                      /\ before = {} => cards'[c].due = 1
                      /\ before # {} => \E k \in before : cards'[c].due = cards'[k].due + 1]_vars

\* a call that made two cards in a deck that held a NEW card: dues 1, 2, 3
C23_Witness ==
    /\ response = Returned("create_card")
    /\ \E a, b, c \in DOMAIN cards :
          /\ cards[a].nid # cards[b].nid /\ cards[b].nid = cards[c].nid
          /\ b < c
          /\ { cards[a].did, cards[b].did, cards[c].did } = { 1 }
          /\ cards[a].due = 1 /\ cards[b].due = 2 /\ cards[c].due = 3

\* ------------------------------------------------------------ review histories
\* create_card's cards under reviews of any ease at later and later seconds,
\* with update_card and delete_card beside them.
MaxClock == 2      \* seconds the wall clock may advance under SpecReview

AnyEases == 0..5        \* ease is an unchecked int: 1..4 and two values outside
ReviewTypeNames == { "Basic (and reversed card)" }
ReviewFronts == { <<"Q">> }
ReviewCardIds == 1..2

\* the wall clock moves on between two calls
Later ==
    /\ now < MaxClock
    /\ now' = now + 1
    /\ UNCHANGED <<db, pending, response, lib>>

NextReview ==
    \/ \E t \in ReviewTypeNames, f \in ReviewFronts, b \in Backs, g \in TagInputs,
          o \in Offsets : create_card(t, "Test Deck", f, b, g, o)
    \/ create_card_cards
    \/ \E c \in ReviewCardIds, e \in AnyEases, ms \in ReviewTimesMs, o \in Offsets :
          review_card(c, e, ms, o)
    \/ \E c \in ReviewCardIds, o \in Offsets : update_card(c, <<"R">>, None, None, o)
    \/ \E c \in ReviewCardIds, o \in Offsets : delete_card(c, o)
    \/ Later

SpecReview == Init /\ [][NextReview]_vars

\* C24: a card made by create_card has, after any reviews with any eases,
\* queue id = type id and a type among NEW, LEARNING and REVIEW (never
\* RELEARNING); a card of type REVIEW stays of type REVIEW.
C24_TypeAndQueue ==
    /\ [](\A c \in DOMAIN cards :
             /\ cards[c].queue_id = cards[c].type_id
             /\ cards[c].type_id \in { CardTypeEnum["NEW"], CardTypeEnum.LEARNING,
                                       CardTypeEnum.REVIEW })
    /\ [][\A c \in DOMAIN cards :
             cards[c].type_id = CardTypeEnum.REVIEW =>
                c \in DOMAIN cards' /\ cards'[c].type_id = CardTypeEnum.REVIEW]_vars

\* a card reviewed three times, the third time as a REVIEW card with an ease
\* outside 1..4
C24_Witness ==
    \E c \in DOMAIN cards :
        /\ cards[c].reps = 3
        /\ cards[c].type_id = CardTypeEnum.REVIEW
        /\ \E r \in revlog : r.cid = c /\ r.type = CardTypeEnum.REVIEW /\ r.ease = 5

\* the RevLog rows of a card
RowsOf(c) == { r \in revlog : r.cid = c }

\* C25: in every state reached by the service operations, the reps of a card
\* made by create_card is the number of RevLog rows whose cid is that card,
\* and its lapses is at most its reps.
C25_RepsCountRows ==
    \A c \in DOMAIN cards :
        /\ cards[c].reps = Cardinality(RowsOf(c))
        /\ cards[c].lapses <= cards[c].reps

\* a card with three reviews, the last an Again in REVIEW, and a fourth
\* review_card call on it refused in the same second
C25_Witness ==
    /\ response = Raised("review_card", "IntegrityError")
    /\ \E c \in DOMAIN cards :
          /\ cards[c].reps = 3 /\ cards[c].lapses = 1
          /\ Cardinality(RowsOf(c)) = 3

\* C26: in every state reached by create_card and delete_card calls, failed
\* create_card calls and notetypes without a template included, every
\* persisted note is referenced by at least one card (states between two
\* calls: no create_card is between its commits).
C26_EveryNoteHasCard ==
    pending = {} =>
       \A n \in DOMAIN notes : \E c \in DOMAIN cards : cards[c].nid = n

\* ------------------------------------------------------------ notes under update
\* create_card and update_card with texts that may hold the unit separator
NoteFronts == { <<"Q">>, <<"Q", US, "R">> }
NoteFrontUpdates == { None, <<"R">>, <<"Q", US, "R">> }
NoteBackUpdates == { None, <<"B">> }
NoteTagUpdates == { None, <<"t">> }
NoteCardIds == 1..2

NextNote ==
    \/ \E f \in NoteFronts, b \in Backs, g \in TagInputs, o \in Offsets :
          create_card("Basic", "Test Deck", f, b, g, o)
    \/ create_card_cards
    \/ \E c \in NoteCardIds, f \in NoteFrontUpdates, b \in NoteBackUpdates,
          g \in NoteTagUpdates, o \in Offsets : update_card(c, f, b, g, o)
    \/ \E c \in NoteCardIds : get_card(c)
    \/ Tick

SpecNote == Init /\ [][NextNote]_vars

\* the first field of a stored fields string
FirstField(flds) == split(flds, US)[1]

\* C29: after create_card and any update_card calls (front, back, tags or any
\* combination), a note's sort field is the first field of its fields string
\* and its checksum is the checksum of that sort field.
C29_SortFieldFirstField ==
    \A n \in DOMAIN notes :
        /\ notes[n].sfld = FirstField(notes[n].flds)
        /\ notes[n].csum = anki_field_checksum(notes[n].sfld)

\* C29, for the notes whose sort field holds no unit separator: the sort
\* field is the first field and the checksum is the sort field's.
C29_WithoutSeparator ==
    \A n \in DOMAIN notes :
        (\A i \in 1..Len(notes[n].sfld) : notes[n].sfld[i] # US) =>
           /\ notes[n].sfld = FirstField(notes[n].flds)
           /\ notes[n].csum = anki_field_checksum(notes[n].sfld)

\* C30: in every state reached by create_card, review_card and delete_card
\* calls, the cid of every RevLog row is the id of a stored card.
C30_RevLogCardExists ==
    \A r \in revlog : r.cid \in DOMAIN cards

\* a delete_card call on a reviewed card, refused, with the card and its row
\* left; a sibling card without reviews was deleted before
C30_Witness ==
    /\ response = Raised("delete_card", "IntegrityError")
    /\ \E r \in revlog : r.cid \in DOMAIN cards /\ cards[r.cid].reps = 1
    /\ \E c \in 1..(nextCardId - 1) : c \notin DOMAIN cards

\* ------------------------------------------------------------ strip_html
MaxPieces == 3     \* pieces a text handed to strip_html is made of

\* s[i:] of a Python string, i zero-based
From(s, i) == SubSeq(s, i + 1, Len(s))

\* s.startswith(w)
StartsWith(s, w) == Len(w) <= Len(s) /\ SubSeq(s, 1, Len(w)) = w

\* the patterns of html_handler.py and validators.py
BR_PATTERN == "<br\\s*/?>"
P_PATTERN == "</p>"
DIV_PATTERN == "</div>"
LI_PATTERN == "</li>"
TAG_PATTERN == "<[^>]+>"
NEWLINES_PATTERN == "\\n\\s*\\n"
SPACES_PATTERN == "[ \\t]+"

\* the position of the last newline of a text, 0 if it has none
LastNewline(s) ==
    IF \A i \in 1..Len(s) : s[i] # NL THEN 0
    ELSE CHOOSE i \in 1..Len(s) : s[i] = NL /\ \A j \in (i + 1)..Len(s) : s[j] # NL

\* the length of the match of a pattern at the start of s, 0 if there is none
\* (no pattern matches the empty text); the first four ignore case
MatchLen(pattern, s) ==
    CASE pattern = BR_PATTERN ->
            IF ~ StartsWith(lower(s), <<"<", "b", "r">>) THEN 0
            ELSE LET p == 4 + Len(TakeWhile(From(s, 3), Whitespace))
                 IN  IF p + 1 <= Len(s) /\ s[p] = "/" /\ s[p + 1] = ">" THEN p + 1
                     ELSE IF p <= Len(s) /\ s[p] = ">" THEN p
                     ELSE 0
      [] pattern = P_PATTERN ->
            IF StartsWith(lower(s), <<"<", "/", "p", ">">>) THEN 4 ELSE 0
      [] pattern = DIV_PATTERN ->
            IF StartsWith(lower(s), <<"<", "/", "d", "i", "v", ">">>) THEN 6 ELSE 0
      [] pattern = LI_PATTERN ->
            IF StartsWith(lower(s), <<"<", "/", "l", "i", ">">>) THEN 5 ELSE 0
      [] pattern = TAG_PATTERN ->
            IF Len(s) >= 3 /\ s[1] = "<" /\ s[2] # ">" /\ \E k \in 3..Len(s) : s[k] = ">"
            THEN CHOOSE k \in 3..Len(s) : s[k] = ">" /\ \A j \in 3..(k - 1) : s[j] # ">"
            ELSE 0
      [] pattern = NEWLINES_PATTERN ->
            IF s = <<>> \/ s[1] # NL THEN 0
            ELSE LET k == LastNewline(TakeWhile(Tail(s), Whitespace))
                 IN  IF k = 0 THEN 0 ELSE 1 + k
      [] pattern = SPACES_PATTERN -> Len(TakeWhile(s, { SP, TAB }))

\* re.sub(pattern, repl, string): the matches from left to right, none
\* overlapping another, each replaced by repl
RECURSIVE sub(_, _, _)
sub(pattern, repl, string) ==
    IF string = <<>> THEN <<>>
    ELSE LET m == MatchLen(pattern, string)
         IN  IF m > 0 THEN repl \o sub(pattern, repl, From(string, m))
             ELSE <<Head(string)>> \o sub(pattern, repl, Tail(string))

\* str.replace(old, new)
RECURSIVE replace(_, _, _)
replace(s, old, new) ==
    IF s = <<>> THEN <<>>
    ELSE IF StartsWith(s, old) THEN new \o replace(From(s, Len(old)), old, new)
    ELSE <<Head(s)>> \o replace(Tail(s), old, new)

\* html.entities.html5, the entries the texts below can spell
html5 ==
    [name \in { <<"a", "m", "p", ";">>, <<"a", "m", "p">>, <<"l", "t", ";">>,
                <<"l", "t">>, <<"g", "t", ";">>, <<"g", "t">> } |->
        IF name[1] = "a" THEN <<"&">> ELSE IF name[1] = "l" THEN <<"<">> ELSE <<">">>]

\* the name after an ampersand: [^\t\n\f <&#;]{1,32};?
CharrefName(s) ==
    LET run == TakeWhile(s, { s[i] : i \in 1..Len(s) } \ { TAB, NL, SP, "<", "&", "#", ";" })
    IN  IF run = <<>> THEN <<>>
        ELSE IF Len(run) < Len(s) /\ s[Len(run) + 1] = ";" THEN run \o <<";">>
        ELSE run

\* html._replace_charref for a name: the entry, else the longest proper prefix
\* of two characters or more that is an entry, else the text as it is
replace_charref(name) ==
    IF name \in DOMAIN html5 THEN html5[name]
    ELSE LET xs == { x \in 2..(Len(name) - 1) : SubSeq(name, 1, x) \in DOMAIN html5 }
         IN  IF xs = {} THEN <<"&">> \o name
             ELSE html5[SubSeq(name, 1, Max(xs))] \o From(name, Max(xs))

\* html.unescape: what a replaced reference yields is not read again
RECURSIVE unescape(_)
unescape(s) ==
    IF s = <<>> THEN <<>>
    ELSE IF Head(s) = "&" /\ CharrefName(Tail(s)) # <<>>
    THEN replace_charref(CharrefName(Tail(s)))
            \o unescape(From(s, 1 + Len(CharrefName(Tail(s)))))
    ELSE <<Head(s)>> \o unescape(Tail(s))

\* HtmlHandler.strip_html
HtmlHandler_strip_html(content) ==
    LET r1 == sub(BR_PATTERN, <<NL>>, content)
        r2 == sub(P_PATTERN, <<NL>>, r1)
        r3 == sub(DIV_PATTERN, <<NL>>, r2)
        r4 == sub(LI_PATTERN, <<NL>>, r3)
        r5 == sub(TAG_PATTERN, <<>>, r4)
        r6 == unescape(r5)
        r7 == sub(NEWLINES_PATTERN, <<NL, NL>>, r6)
        r8 == sub(SPACES_PATTERN, <<SP>>, r7)
    IN  strip(r8)

\* CardValidator.strip_html
CardValidator_strip_html(content) ==
    LET r0 == sub(TAG_PATTERN, <<>>, content)
        r1 == replace(r0, <<"&", "n", "b", "s", "p", ";">>, <<SP>>)
        r2 == replace(r1, <<"&", "a", "m", "p", ";">>, <<"&">>)
        r3 == replace(r2, <<"&", "l", "t", ";">>, <<"<">>)
        r4 == replace(r3, <<"&", "g", "t", ";">>, <<">">>)
        r5 == replace(r4, <<"&", "q", "u", "o", "t", ";">>, <<"\"">>)
        r6 == replace(r5, <<"<", "b", "r", ">">>, <<NL>>)
        r7 == replace(r6, <<"<", "b", "r", "/", ">">>, <<NL>>)
    IN  replace(r7, <<"<", "b", "r", SP, "/", ">">>, <<NL>>)

strip_html(by, content) ==
    IF by = "HtmlHandler" THEN HtmlHandler_strip_html(content)
    ELSE CardValidator_strip_html(content)

\* the pieces the texts are made of: markup, entities and plain text
HtmlPieces ==
    { <<"<">>, <<">">>, <<"b", "r">>, <<"/">>, <<SP>>, <<NL>>,
      <<"<", "/", "p", ">">>,
      <<"&", "l", "t", ";">>, <<"&", "g", "t", ";">>, <<"&", "a", "m", "p", ";">>,
      <<"l", "t", ";">> }

RECURSIVE Texts(_)
Texts(n) ==
    IF n = 0 THEN { <<>> }
    ELSE Texts(n - 1) \cup { t \o p : t \in Texts(n - 1), p \in HtmlPieces }

HtmlTexts == Texts(MaxPieces)

StripHandlers == { "HtmlHandler", "CardValidator" }

InitHtml ==
    /\ decks = SeedDecks
    /\ notes = EmptyTable
    /\ cards = EmptyTable
    /\ revlog = {}
    /\ nextNoteId = 1
    /\ nextCardId = 1
    /\ now = 0
    /\ pending = {}
    /\ response = Raised("", "")
    /\ tmpdirs = {}
    /\ job = {}
    /\ reply = [op |-> "", error |-> "", dir |-> 0, body |-> <<>>]
    /\ file = <<>>
    /\ result = [cards |-> <<>>, skipped_count |-> 0, errors |-> <<>>, deck_detected |-> FALSE]
    /\ parsers = EmptyTable
    /\ calls = <<>>
    /\ created = [called |-> "", parser |-> "", error |-> ""]
    /\ csv = NoCsv
    /\ reqs = EmptyTable
    /\ \E x \in HtmlTexts : html = [NoHtml EXCEPT !.content = x]

\* strip_html(x)
Strip(by) ==
    /\ html.applied = 0
    /\ html' = [html EXCEPT !.by = by, !.once = strip_html(by, html.content),
                            !.applied = 1]
    /\ UNCHANGED <<svc, tmpdirs, job, reply, file, result, parsers, calls, created, csv, reqs>>

\* strip_html(strip_html(x))
StripAgain ==
    /\ html.applied = 1
    /\ html' = [html EXCEPT !.twice = strip_html(html.by, html.once), !.applied = 2]
    /\ UNCHANGED <<svc, tmpdirs, job, reply, file, result, parsers, calls, created, csv, reqs>>

NextHtml ==
    \/ \E by \in StripHandlers : Strip(by)
    \/ StripAgain

SpecHtml == InitHtml /\ [][NextHtml]_vars

\* C21: strip_html(strip_html(x)) = strip_html(x) for every text x, texts with
\* tags and entities included, for HtmlHandler.strip_html and for
\* CardValidator.strip_html.
C21_StripHtmlIdempotent ==
    html.applied = 2 => html.twice = html.once

\* ------------------------------------------------------------ CsvParser
MaxRows == 2       \* lines of a CSV file
MaxParses == 2     \* parse calls on one CsvParser

NoColumn == NoId   \* deck=None, tags=None in a column mapping

\* the column names _detect_columns_from_header knows
front_names ==
    { <<"f", "r", "o", "n", "t">>,
      <<"q", "u", "e", "s", "t", "i", "o", "n">>,
      <<"q">>,
      <<"t", "e", "r", "m">>,
      <<"w", "o", "r", "d">> }
back_names ==
    { <<"b", "a", "c", "k">>,
      <<"a", "n", "s", "w", "e", "r">>,
      <<"a">>,
      <<"d", "e", "f", "i", "n", "i", "t", "i", "o", "n">>,
      <<"m", "e", "a", "n", "i", "n", "g">> }
deck_names ==
    { <<"d", "e", "c", "k">>,
      <<"c", "a", "t", "e", "g", "o", "r", "y">>,
      <<"c", "o", "l", "l", "e", "c", "t", "i", "o", "n">>,
      <<"g", "r", "o", "u", "p">> }
tag_names ==
    { <<"t", "a", "g", "s">>,
      <<"t", "a", "g">>,
      <<"l", "a", "b", "e", "l", "s">>,
      <<"k", "e", "y", "w", "o", "r", "d", "s">> }

\* {'front': 0, 'back': 1, 'deck': None, 'tags': None}
DefaultMapping == [front |-> 0, back |-> 1, deck |-> NoColumn, tags |-> NoColumn]

\* csv.reader(f, delimiter=',') on one line without quotes: its cells
reader(line) == IF line = <<>> THEN <<>> ELSE split(line, ",")

\* CsvParser._detect_columns_from_header, from cell i (zero-based) on
RECURSIVE detect_columns_from_header(_, _, _)
detect_columns_from_header(column_mapping, header_row, i) ==
    IF i >= Len(header_row) THEN column_mapping
    ELSE LET name == strip(lower(header_row[i + 1]))
         IN  detect_columns_from_header(
                IF name \in front_names THEN [column_mapping EXCEPT !.front = i]
                ELSE IF name \in back_names THEN [column_mapping EXCEPT !.back = i]
                ELSE IF name \in deck_names THEN [column_mapping EXCEPT !.deck = i]
                ELSE IF name \in tag_names THEN [column_mapping EXCEPT !.tags = i]
                ELSE column_mapping,
                header_row, i + 1)

\* CsvParser._parse_row and the add_card that follows it in parse
parse_row(row, line_num, column_mapping, result0) ==
    LET front_col == column_mapping.front
        back_col == column_mapping.back
        deck_col == column_mapping.deck
        front == strip(row[front_col + 1])
        back == strip(row[back_col + 1])
        deck_name ==
            IF deck_col # NoColumn /\ deck_col < Len(row) /\ strip(row[deck_col + 1]) # <<>>
            THEN strip(row[deck_col + 1]) ELSE None
    IN  IF Len(row) <= Max({front_col, back_col})
        THEN add_error(result0, Message(line_num, "Not enough columns"))
        ELSE IF validate_content(front) # ""
        THEN add_error(result0, Message(line_num, "Front - Content is empty"))
        ELSE IF validate_content(back) # ""
        THEN add_error(result0, Message(line_num, "Back - Content is empty"))
        ELSE add_card(result0, Flashcard(front, back, deck_name))

\* the loop over the rows: blank rows are passed over
RECURSIVE parse_rows(_, _, _, _)
parse_rows(rows, line_num, column_mapping, result0) ==
    IF rows = <<>> THEN result0
    ELSE parse_rows(Tail(rows), line_num + 1, column_mapping,
            IF \A k \in 1..Len(Head(rows)) : strip(Head(rows)[k]) = <<>>
            THEN result0
            ELSE parse_row(Head(rows), line_num, column_mapping, result0))

\* the column mapping parse starts from
MappingAtStart(self) ==
    IF DOMAIN self.column_mapping = {} THEN DefaultMapping ELSE self.column_mapping

\* the column mapping once the header row is read
MappingAfterHeader(self, lines) ==
    IF self.has_header /\ lines # <<>> /\ reader(lines[1]) # <<>>
    THEN detect_columns_from_header(MappingAtStart(self), reader(lines[1]), 0)
    ELSE MappingAtStart(self)

\* line 83: result.deck_detected, taken before the file is opened
deck_detected(self, lines) == MappingAtStart(self).deck # NoColumn

\* CsvParser.parse: the ImportResult
CsvParser_result(self, lines) ==
    LET rows == [k \in 1..Len(lines) |-> reader(lines[k])]
        data == IF self.has_header THEN SubSeq(rows, 2, Len(rows)) ELSE rows
        parsed == parse_rows(data, IF self.has_header THEN 2 ELSE 1,
                             MappingAfterHeader(self, lines),
                             [ImportResult EXCEPT
                                !.deck_detected = deck_detected(self, lines)])
    IN  IF parsed.cards = <<>>
        THEN add_error(parsed, Message(0, "No valid cards found in file"))
        ELSE parsed

\* the lines tried, without their newline
CsvLineTexts ==
    { <<"f", "r", "o", "n", "t", ",", "b", "a", "c", "k", ",", "d", "e", "c", "k">>,
      <<"f", "r", "o", "n", "t", ",", "b", "a", "c", "k">>,
      <<SP, "D", "e", "c", "k", SP, ",", "q", ",", "a">>,
      <<"Q", ",", "A", ",", "D">>,
      <<"Q", ",", "A">>,
      <<"Q">>,
      <<>> }

CsvFiles == UNION { [1..n -> CsvLineTexts] : n \in 0..MaxRows }

DeckColumns == { NoColumn, 2 }

InitCsv ==
    /\ decks = SeedDecks
    /\ notes = EmptyTable
    /\ cards = EmptyTable
    /\ revlog = {}
    /\ nextNoteId = 1
    /\ nextCardId = 1
    /\ now = 0
    /\ pending = {}
    /\ response = Raised("", "")
    /\ tmpdirs = {}
    /\ job = {}
    /\ reply = [op |-> "", error |-> "", dir |-> 0, body |-> <<>>]
    /\ file \in CsvFiles
    /\ result = ImportResult
    /\ parsers = EmptyTable
    /\ calls = <<>>
    /\ created = [called |-> "", parser |-> "", error |-> ""]
    /\ html = NoHtml
    /\ \E h \in BOOLEAN : csv = [NoCsv EXCEPT !.has_header = h]
    /\ reqs = EmptyTable

\* CsvParser.set_column_mapping(front=0, back=1, deck=deck, tags=None)
set_column_mapping(deck) ==
    /\ csv.parses = 0
    /\ DOMAIN csv.column_mapping = {}
    /\ csv' = [csv EXCEPT !.column_mapping = [DefaultMapping EXCEPT !.deck = deck]]
    /\ UNCHANGED <<svc, tmpdirs, job, reply, file, result, parsers, calls, created, html, reqs>>

\* CsvParser.parse(): the result, and the mapping the parser keeps
CsvParser_parse ==
    /\ csv.parses < MaxParses
    /\ result' = CsvParser_result(csv, file)
    /\ csv' = [csv EXCEPT !.column_mapping = MappingAfterHeader(csv, file),
                          !.parses = @ + 1]
    /\ UNCHANGED <<svc, tmpdirs, job, reply, file, parsers, calls, created, html, reqs>>

NextCsv ==
    \/ \E d \in DeckColumns : set_column_mapping(d)
    \/ CsvParser_parse

SpecCsv == InitCsv /\ [][NextCsv]_vars

\* C22: CsvParser.parse on a file with a header row reports deck_detected
\* from the column mapping as it is after the header row was read: true
\* exactly when that mapping has a deck column (a header cell matched a deck
\* keyword, or the deck column was set), false otherwise.
C22_DeckDetectedAfterHeader ==
    [][(CsvParser_parse /\ csv.has_header /\ file # <<>>) =>
          result'.deck_detected = (csv'.column_mapping.deck # NoColumn)]_vars

\* C22, as the code has it: deck_detected tells whether the mapping had a
\* deck column when parse was called.
C22_DeckDetectedAtStart ==
    [][CsvParser_parse =>
          result'.deck_detected = (MappingAtStart(csv).deck # NoColumn)]_vars

\* ------------------------------------------------------------ overlapping requests
\* Two requests at a time, each on its own session (router.py: async with
\* async_session() in every handler), interleaved at their database calls.  A
\* query reads what is committed; a commit writes the session's pending rows.
Sessions == { 1, 2 }

RaceTypeNames == { "Basic" }
RaceFronts == { <<"Q">> }
RaceCardIds == 1..2
RaceEases == { 3 }

\* a session that runs no request
Idle ==
    [op |-> "", pc |-> "done", type_name |-> "", front |-> <<>>, mid |-> NoId,
     did |-> NoId, nid |-> NoId, card_id |-> NoId, ease |-> 0, mod |-> 0,
     card |-> NewCard(NoId, NoId, 0, 0, 0), error |-> "", overlapped |-> FALSE]

Free(r) == IF r \in DOMAIN reqs THEN reqs[r].pc = "done" ELSE TRUE

\* the sessions with request r started and the others as they are; r and the
\* requests in flight at that moment overlap
Started(r, request) ==
    LET busy == { q \in DOMAIN reqs \ {r} : reqs[q].pc # "done" }
    IN  [q \in DOMAIN reqs \cup {r} |->
            IF q = r THEN [request EXCEPT !.overlapped = busy # {}]
            ELSE IF q \in busy THEN [reqs[q] EXCEPT !.overlapped = TRUE]
            ELSE reqs[q]]

\* create_card, lines 66-100: the lookups and the duplicate check
create_card_select(r, type_name, deck_name, front, offset) ==
    /\ Free(r)
    /\ LET deck == { d \in decks : d.name = deck_name }
           notetype == { t \in Notetypes : t.name = type_name }
           mid == (CHOOSE t \in notetype : TRUE).id
           request == [Idle EXCEPT !.op = "create_card", !.type_name = type_name,
                                   !.front = front,
                                   !.mod = get_user_localtime(offset)]
       IN  reqs' = Started(r,
              IF deck = {} THEN [request EXCEPT !.error = "Deck not found"]
              ELSE IF notetype = {} THEN [request EXCEPT !.error = "No notetype found"]
              ELSE IF ExistingNote(anki_field_checksum(front), mid)
              THEN [request EXCEPT !.error = "Note with same sort field already exists in this notetype."]
              ELSE [request EXCEPT !.pc = "note", !.mid = mid,
                                   !.did = (CHOOSE d \in deck : TRUE).id])
    /\ UNCHANGED <<svc, tmpdirs, job, reply, file, result, parsers, calls, created, html, csv>>

\* create_card, lines 102-117: the note and its commit
create_card_note(r) ==
    /\ r \in DOMAIN reqs
    /\ reqs[r].pc = "note"
    /\ nextNoteId <= MaxNotes
    /\ notes' = Put(notes, nextNoteId,
                    NewNote(reqs[r].mid, reqs[r].mod, reqs[r].front, <<"A">>, <<>>))
    /\ nextNoteId' = nextNoteId + 1
    /\ reqs' = [reqs EXCEPT ![r].pc = "cards", ![r].nid = nextNoteId]
    /\ UNCHANGED <<decks, cards, revlog, nextCardId, now, pending, response,
                   tmpdirs, job, reply, file, result, parsers, calls, created, html, csv>>

\* create_card, lines 119-166: the cards and their commit
create_card_commit(r) ==
    /\ r \in DOMAIN reqs
    /\ reqs[r].pc = "cards"
    /\ LET ords == TemplateOrds(reqs[r].mid)
       IN  /\ cards' = AddCards(cards, ords, nextCardId, reqs[r].nid, reqs[r].did,
                                reqs[r].mod)
           /\ nextCardId' = nextCardId + Len(ords)
    /\ reqs' = [reqs EXCEPT ![r].pc = "done"]
    /\ UNCHANGED <<decks, notes, revlog, nextNoteId, now, pending, response,
                   tmpdirs, job, reply, file, result, parsers, calls, created, html, csv>>

\* review_card, lines 213-270: the card is read, and the RevLog row and the
\* card's new values are made from what was read
review_card_select(r, card_id, ease, offset) ==
    /\ Free(r)
    /\ LET request == [Idle EXCEPT !.op = "review_card", !.card_id = card_id,
                                   !.ease = ease, !.mod = get_user_localtime(offset)]
       IN  reqs' = Started(r,
              IF card_id \notin DOMAIN cards
              THEN [request EXCEPT !.error = "Card not found"]
              ELSE [request EXCEPT !.pc = "commit", !.card = cards[card_id]])
    /\ UNCHANGED <<svc, tmpdirs, job, reply, file, result, parsers, calls, created, html, csv>>

\* the UPDATE the flush sends: the columns whose value the session changed are
\* set to the session's values, the others stay as stored
Flushed(stored, loaded, changed) ==
    [f \in DOMAIN stored |-> IF changed[f] # loaded[f] THEN changed[f] ELSE stored[f]]

\* review_card, line 272: the commit, refused when the RevLog id is taken
review_card_commit(r, review_time_ms) ==
    /\ r \in DOMAIN reqs
    /\ reqs[r].pc = "commit"
    /\ LET q == reqs[r]
           revlog_entry == ReviewLog(q.card_id, q.card, q.ease, review_time_ms, q.mod)
       IN  IF RevLogInsertFails(revlog_entry)
           THEN /\ reqs' = [reqs EXCEPT ![r].pc = "done", ![r].error = "IntegrityError"]
                /\ UNCHANGED db
           ELSE /\ Cardinality(revlog) < MaxReviews
                /\ revlog' = revlog \cup { revlog_entry }
                /\ cards' = [cards EXCEPT ![q.card_id] =
                                Flushed(cards[q.card_id], q.card,
                                        Reviewed(q.card, q.ease, q.mod))]
                /\ reqs' = [reqs EXCEPT ![r].pc = "done"]
                /\ UNCHANGED <<decks, notes, nextNoteId, nextCardId>>
    /\ UNCHANGED <<now, pending, response, tmpdirs, job, reply, file, result, parsers,
                   calls, created, html, csv>>

NextRace ==
    \/ \E r \in Sessions, t \in RaceTypeNames, f \in RaceFronts, o \in Offsets :
          create_card_select(r, t, "Test Deck", f, o)
    \/ \E r \in Sessions : create_card_note(r)
    \/ \E r \in Sessions : create_card_commit(r)
    \/ \E r \in Sessions, c \in RaceCardIds, e \in RaceEases, o \in Offsets :
          review_card_select(r, c, e, o)
    \/ \E r \in Sessions, ms \in ReviewTimesMs : review_card_commit(r, ms)
    \/ Later

SpecRace == Init /\ [][NextRace]_vars

\* two finished requests of one operation that overlapped
Overlapped(a, b, op) ==
    /\ a # b
    /\ reqs[a].op = op /\ reqs[b].op = op
    /\ reqs[a].pc = "done" /\ reqs[b].pc = "done"
    /\ reqs[a].overlapped /\ reqs[b].overlapped

\* C27: of two overlapping create_card requests with the same front and the
\* same notetype at most one creates a note, and the other fails with the
\* duplicate-note error.
C27_OneNoteOnly ==
    \A a, b \in DOMAIN reqs :
        (/\ Overlapped(a, b, "create_card")
         /\ reqs[a].front = reqs[b].front
         /\ reqs[a].type_name = reqs[b].type_name
         /\ reqs[a].nid # NoId) =>
            /\ reqs[b].nid = NoId
            /\ reqs[b].error = "Note with same sort field already exists in this notetype."

\* C28: after two overlapping review_card requests for one card the card is
\* as after the two reviews run one after the other in some order: reps has
\* grown by 2 and two RevLog rows were added.
C28_ReviewsAsInSomeOrder ==
    \A a, b \in DOMAIN reqs :
        (/\ Overlapped(a, b, "review_card")
         /\ reqs[a].card_id = reqs[b].card_id
         /\ reqs[a].card_id \in DOMAIN cards
         /\ reqs[a].error # "Card not found" /\ reqs[b].error # "Card not found") =>
            LET c == reqs[a].card_id
                InOrder(x, y) ==
                    cards[c] = Reviewed(Reviewed(reqs[x].card, reqs[x].ease, reqs[x].mod),
                                        reqs[y].ease, reqs[y].mod)
            IN  /\ InOrder(a, b) \/ InOrder(b, a)
                /\ cards[c].reps = reqs[a].card.reps + 2 \/ cards[c].reps = reqs[b].card.reps + 2
                /\ Cardinality({ r \in RowsOf(c) :
                                    r.id \in { reqs[a].mod * 1000, reqs[b].mod * 1000 } }) = 2

====
